---- MODULE Spec2Model ----
(***************************************************************************)
(* Latte'd storage module (storage.js, first version in                    *)
(* src/unnamed/part_002): the local-first entry store (localStorage list   *)
(* + IndexedDB blobs), the comment / loadout helpers and the Firebase      *)
(* cloud sync engine, as a state machine.                                  *)
(*                                                                         *)
(* JavaScript is single threaded: code between two awaits runs atomically. *)
(* Every action below is one such run: the effect of the awaited request   *)
(* followed by the continuation up to the next await.                      *)
(*                                                                         *)
(* Abstractions: params/beans/rating/notes of an entry are one value       *)
(* `data`; media.type is left out; a blob is a number (0 = null); the      *)
(* thumbnail of blob b is b (0 = null); the download URL of entry id is id *)
(* (0 = null); syncedAt 0 and userId 0 stand for a missing field.          *)
(* localStorage and IndexedDB requests do not fail; remote requests may.   *)
(***************************************************************************)
EXTENDS Integers, Sequences, FiniteSets, TLC

\* ---------------------------------------------------------------- bounds
MaxEntries == 2      \* ids that generateId hands out
MaxBlob    == 2      \* media blobs 1..MaxBlob; a replacement is blob MaxBlob
MaxClock   == 2      \* Date.now() ranges over 1..MaxClock
MaxPush    == 1      \* background pushes in flight at once
MaxComments == 3     \* comment ids per run
MaxLoadouts == 2     \* loadout ids per run
MaxCount   == 3      \* a vote counter stays below MaxCount

MockId   == 0        \* the id of a MOCK_ENTRIES entry
Ids      == 1..MaxEntries
CommentIds == 1..MaxComments
BaseCommentId == MaxComments + 1  \* a comment that comes with the mock entry
VoteKeys == (Ids \cup {MockId}) \X CommentIds
NoCounts == [upvotes |-> 0, downvotes |-> 0]
SyncIds  == {1, 2}   \* two performFullSync invocations may overlap
Me       == 1        \* getProfile().id of this installation
Other    == 2        \* getProfile().id of another installation of the identity
Uid      == 1        \* firebaseAuth.currentUser.uid
NOTIFICATION_CAP == 50

VARIABLES
  entries,        \* localStorage[ENTRIES_KEY]: sequence of entry records
  media,          \* IndexedDB MEDIA_STORE: id -> blob (0 = none)
  remoteDocs,     \* Firestore users/{uid}/entries: the set of documents
  remoteBlob,     \* Firebase Storage users/{uid}/entries/{id}/media (0 = none)
  publicFeed,     \* Firestore publicFeed: the set of mirror documents
  signedIn,       \* firebaseAuth.currentUser # null
  now,            \* Date.now()
  nextId,         \* next identifier generateId produces
  syncInProgress, \* the module-level guard flag
  fg,             \* the createEntry/updateEntry call suspended at an await
  pushes,         \* syncEntryToCloud calls in flight
  dels,           \* deleteEntryFromCloud calls in flight
  sync,           \* performFullSync invocations: position and locals
  loadouts,       \* localStorage[LOADOUTS_KEY]
  notifications,  \* localStorage[NOTIFICATIONS_KEY]
  lastResult,     \* what the step just taken returned / threw to the page
  errlog,         \* the step just taken logged a failure (console.error)
  gh,             \* history of each fullSync invocation (observation only)
  votes,          \* localStorage[VOTES_KEY]: <<entry id, comment id>> -> -1, 0, 1
  mockVotes,      \* localStorage[mock_votes_<entry>]: comment id -> counters
  mockComments,   \* localStorage[mock_comments_<entry>]: the comments added
  profile,        \* localStorage[PROFILE_KEY]: the name (0 = ''); the id is Me
  remoteProfile,  \* Firestore users/{uid}: whether it has a profile, its name
  profileOps,     \* syncProfileToCloud / syncProfileFromCloud calls in flight
  thumbJob,       \* the createThumbnail promise a call is suspended on
  publicFeedCache, \* the public feedShown as last fetched
  feedShown            \* what the last getCommunityFeed call returned

vars == <<entries, media, remoteDocs, remoteBlob, publicFeed, signedIn, now,
          nextId, syncInProgress, fg, pushes, dels, sync, loadouts,
          notifications, lastResult, errlog, gh, votes, mockVotes,
          mockComments, profile, remoteProfile, profileOps, thumbJob, publicFeedCache,
          feedShown>>

\* the stores that only the vote and profile calls touch
sideStores == <<votes, mockVotes, mockComments, profile, remoteProfile, profileOps,
                publicFeedCache, feedShown>>

\* the same and the createThumbnail promise
aux == <<sideStores, thumbJob,
                 publicFeedCache, feedShown>>

\* ------------------------------------------------------------- helpers
IdsOf(es) == {es[k].id : k \in 1..Len(es)}

\* faulty variant: a missing id gives the last position (index -1 read from
\* the end of the array)
FindIndexLast(es, id) ==
  IF id \in IdsOf(es)
  THEN CHOOSE k \in 1..Len(es) : es[k].id = id /\ \A m \in 1..(k-1) : es[m].id # id
  ELSE Len(es)

\* faulty variant: a missing id gives the first position
FindIndexFirst(es, id) ==
  IF id \in IdsOf(es)
  THEN CHOOSE k \in 1..Len(es) : es[k].id = id /\ \A m \in 1..(k-1) : es[m].id # id
  ELSE IF es = <<>> THEN 0 ELSE 1

\* Array.prototype.findIndex(e => e.id === id), 1-based; 0 stands for -1
FindIndex(es, id) ==
  IF id \in IdsOf(es)
  THEN CHOOSE k \in 1..Len(es) : es[k].id = id /\ \A m \in 1..(k-1) : es[m].id # id
  ELSE 0

\* faulty variant: the filter keeps the entry instead of dropping it
RemoveEntryInverted(es, id) == SelectSeq(es, LAMBDA e : e.id = id)

\* entries.filter(e => e.id !== id)
RemoveEntry(es, id) == SelectSeq(es, LAMBDA e : e.id # id)

\* localEntries.sort((a, b) => b.createdAt - a.createdAt): stable insertion sort
RECURSIVE InsertDesc(_, _)
InsertDesc(sorted, e) ==
  IF sorted = <<>> THEN <<e>>
  ELSE IF Head(sorted).createdAt >= e.createdAt
       THEN <<Head(sorted)>> \o InsertDesc(Tail(sorted), e)
       ELSE <<e>> \o sorted

\* faulty variant: the list is left as it is
SortDescNot(es) == es

RECURSIVE SortDesc(_)
SortDesc(es) ==
  IF es = <<>> THEN <<>>
  ELSE InsertDesc(SortDesc(SubSeq(es, 1, Len(es) - 1)), es[Len(es)])

\* faulty variant: the put is lost
SaveMediaLost(m, id, b) == m

\* saveMedia(id, blob): store.put(blob, id) (lines 75-85)
SaveMedia(m, id, b) == [m EXCEPT ![id] = b]

\* deleteMedia(id): store.delete(id) (lines 107-117)
DeleteMedia(m, id) == [m EXCEPT ![id] = 0]

\* ------------------------------------------------------------- records
\* createEntry's record (lines 631-649); media.cloudUrl and syncedAt/userId do
\* not exist yet (0)
NewEntry(id, t, th, d, pub) ==
  [id |-> id, createdAt |-> t, thumb |-> th, cloudUrl |-> 0, data |-> d,
   isPublic |-> pub, comments |-> <<>>, owner |-> Me, syncedAt |-> 0, userId |-> 0]

\* the Firestore document syncEntryToCloud writes (lines 219-229)
CloudEntry(e, url, t) ==
  [e EXCEPT !.thumb = 0, !.cloudUrl = url, !.syncedAt = t, !.userId = Uid]

\* the publicFeed document addToPublicFeed writes (lines 297-317)
PublicEntry(e, url, t) ==
  [id |-> e.id, createdAt |-> e.createdAt, updatedAt |-> t, cloudUrl |-> url,
   data |-> e.data, owner |-> Me]

\* a Firestore collection is the set of its documents, keyed by their id field
HasDoc(c, k)    == \E d \in c : d.id = k
DocOf(c, k)     == CHOOSE d \in c : d.id = k
DocDelete(c, k) == {d \in c : d.id # k}
DocSet(c, k, v) == DocDelete(c, k) \cup {v}

\* no createThumbnail promise
ThumbIdle ==
  [pc |-> "idle", caller |-> "none", blob |-> 0, type |-> "none", timer |-> FALSE,
   settled |-> FALSE, result |-> 0]

FgIdle == [pc |-> "idle", id |-> 0, entry |-> <<>>, es |-> <<>>, blob |-> 0,
           data |-> 0, pub |-> FALSE, thumb |-> 0]

SyncIdle == [pc |-> "idle", cloud |-> <<>>, loc |-> <<>>, localIds |-> {},
             i |-> 0, ents |-> <<>>, j |-> 0]

\* what the step just taken returned to the page: the call, the entry id and
\* blob it was about, whether the id was found, and the outcome
Result(op, id, blob, found, outcome) ==
  [op |-> op, id |-> id, blob |-> blob, found |-> found, outcome |-> outcome]

\* the step just taken was no return of an API call
NoResult == Result("none", 0, 0, TRUE, "none")

\* the page makes one createEntry / updateEntry / deleteEntry call at a time
CanCall == fg.pc = "idle"

\* ------------------------------------------------- observation history
\* gh.s is the fullSync invocation that has run alone so far, with no failed
\* remote call (0: none); gh.just: such a run has just completed and nothing
\* happened since; gh.replaced: entries whose media updateEntry replaced since
\* the last completed fullSync. Any other action ends the observation
Disturb(g) ==
  [just |-> FALSE, replaced |-> g.replaced, s |-> 0, second |-> FALSE,
   uploaded |-> FALSE, due |-> {}, snap |-> <<>>]

\* ---------------------------------------------------- syncEntryToCloud
\* faulty variant: the request is made without an identity as well
NewPushAnyway(si, e, b, owner, t) ==
  {[owner |-> owner, entry |-> e, blob |-> b, mediaUrl |-> e.cloudUrl,
    stamp |-> t, pc |-> IF b # 0 THEN "upload" ELSE "set"]}

\* lines 204-216, 219-231: the synchronous prefix of syncEntryToCloud. Without
\* an identity it returns false at once; with a blob it awaits the upload; with
\* none it builds cloudEntry (syncedAt = Date.now()) and awaits entryRef.set
NewPush(si, e, b, owner, t) ==
  IF ~si THEN {}
  ELSE {[owner |-> owner, entry |-> e, blob |-> b, mediaUrl |-> e.cloudUrl,
         stamp |-> t, pc |-> IF b # 0 THEN "upload" ELSE "set"]}

BgPushes == {p \in pushes : p.owner = 0}

\* a fire-and-forget push can start (bound on the pushes in flight)
CanSpawn == ~signedIn \/ Cardinality(BgPushes) < MaxPush

\* lines 235-242: write the cloud URL back into the stored entry
WriteBackUrl(es, id, url) ==
  IF url # 0 /\ FindIndex(es, id) # 0
  THEN [es EXCEPT ![FindIndex(es, id)].cloudUrl = url]
  ELSE es

\* faulty variant: the catch block re-throws to the page
OnPushErrorRethrow(lr) == Result("push", 0, 0, TRUE, "thrown")

\* lines 253-256: the catch block logs and returns false; the caller's result
\* is untouched
OnPushError(lr) == NoResult

\* ------------------------------------------------- entry lifecycle
\* createEntry lines 626-652: generateId, createThumbnail resolved (th = 0 on
\* a decode error or the timeout), record assembled, saveMedia requested
CreateStart(d, pub, b, th) ==
  /\ CanCall
  /\ nextId.e <= MaxEntries
  /\ fg' = [FgIdle EXCEPT !.pc = "create", !.id = nextId.e, !.blob = b,
                          !.entry = NewEntry(nextId.e, now, th, d, pub)]
  /\ nextId' = [nextId EXCEPT !.e = @ + 1]
  /\ gh' = Disturb(gh)
  /\ thumbJob' = ThumbIdle
  /\ lastResult' = NoResult
  /\ errlog' = FALSE
  /\ UNCHANGED <<sideStores, entries, media, remoteDocs, remoteBlob, publicFeed, signedIn,
                 now, syncInProgress, pushes, dels, sync, loadouts, notifications>>

\* createEntry lines 652-670: blob stored, entry prepended, background push
\* started, entry returned
CreateFinish ==
  /\ fg.pc = "create"
  /\ CanSpawn
  /\ media' = SaveMedia(media, fg.id, fg.blob)
  /\ entries' = <<fg.entry>> \o entries
  /\ pushes' = pushes \cup NewPush(signedIn, fg.entry, fg.blob, 0, now)
  /\ lastResult' = Result("create", fg.id, fg.blob, TRUE, "entry")
  /\ errlog' = FALSE
  /\ fg' = FgIdle
  /\ gh' = Disturb(gh)
  /\ UNCHANGED <<aux, remoteDocs, remoteBlob, publicFeed, signedIn, now, nextId,
                 syncInProgress, dels, sync, loadouts, notifications>>

\* updateEntry lines 697-705 on the array read at line 677
ApplyUpdate(es, idx, d, pub, b, th) ==
  IF b # 0
  THEN [es EXCEPT ![idx] = [@ EXCEPT !.thumb = th, !.cloudUrl = 0, !.data = d,
                                      !.isPublic = pub]]
  ELSE [es EXCEPT ![idx] = [@ EXCEPT !.data = d, !.isPublic = pub]]

\* updateEntry lines 676-682: the id is not in the collection
UpdateMissing(id) ==
  /\ CanCall
  /\ FindIndex(entries, id) = 0
  /\ lastResult' = Result("update", id, 0, id \in IdsOf(entries), "thrown")
  /\ errlog' = FALSE
  /\ UNCHANGED <<aux, entries, media, remoteDocs, remoteBlob, publicFeed, signedIn, now,
                 nextId, syncInProgress, fg, pushes, dels, sync, loadouts,
                 notifications, gh>>

\* updateEntry without a new blob: lines 676-713 run without suspension
UpdateMeta(id, d, pub) ==
  /\ CanCall
  /\ CanSpawn
  /\ FindIndex(entries, id) # 0
  /\ LET idx == FindIndex(entries, id)
         es  == ApplyUpdate(entries, idx, d, pub, 0, 0)
     IN /\ entries' = es
        /\ pushes' = pushes \cup NewPush(signedIn, es[idx], 0, 0, now)
  /\ lastResult' = Result("update", id, 0, id \in IdsOf(entries), "entry")
  /\ errlog' = FALSE
  /\ gh' = Disturb(gh)
  /\ UNCHANGED <<aux, media, remoteDocs, remoteBlob, publicFeed, signedIn, now, nextId,
                 syncInProgress, fg, dels, sync, loadouts, notifications>>

\* updateEntry with a new blob, lines 676-689: the collection is read, then the
\* call suspends in createThumbnail / saveMedia
UpdateStart(id, d, pub, b, th) ==
  /\ CanCall
  /\ FindIndex(entries, id) # 0
  /\ fg' = [FgIdle EXCEPT !.pc = "update", !.id = id, !.es = entries, !.blob = b,
                          !.data = d, !.pub = pub, !.thumb = th]
  /\ gh' = Disturb(gh)
  /\ lastResult' = NoResult
  /\ errlog' = FALSE
  /\ UNCHANGED <<aux, entries, media, remoteDocs, remoteBlob, publicFeed, signedIn, now,
                 nextId, syncInProgress, pushes, dels, sync, loadouts,
                 notifications>>

\* updateEntry lines 689-713: blob stored, the array read at line 677 written
\* back with the new media (cloudUrl reset) and fields, background push started
UpdateFinish ==
  /\ fg.pc = "update"
  /\ CanSpawn
  /\ LET idx == FindIndex(fg.es, fg.id)
         es  == ApplyUpdate(fg.es, idx, fg.data, fg.pub, fg.blob, fg.thumb)
     IN /\ entries' = es
        /\ pushes' = pushes \cup NewPush(signedIn, es[idx], fg.blob, 0, now)
  /\ media' = SaveMedia(media, fg.id, fg.blob)
  /\ lastResult' = Result("update", fg.id, fg.blob, fg.id \in IdsOf(fg.es), "entry")
  /\ errlog' = FALSE
  /\ gh' = [Disturb(gh) EXCEPT !.replaced = @ \cup {fg.id}]
  /\ fg' = FgIdle
  /\ UNCHANGED <<aux, remoteDocs, remoteBlob, publicFeed, signedIn, now, nextId,
                 syncInProgress, dels, sync, loadouts, notifications>>

\* deleteEntry lines 718-731: blob deleted, entry filtered out, remote deletion
\* started in the background (deleteEntryFromCloud returns at once without an
\* identity, lines 263-264). The only await (deleteMedia) precedes every read
\* and write, so the call acts in one step, when deleteMedia resolves
DeleteEntry(id) ==
  /\ CanCall
  /\ media' = DeleteMedia(media, id)
  /\ entries' = RemoveEntry(entries, id)
  /\ dels' = IF signedIn THEN dels \cup {id} ELSE dels
  /\ lastResult' = Result("delete", id, 0, id \in IdsOf(entries), "void")
  /\ errlog' = FALSE
  /\ gh' = [Disturb(gh) EXCEPT !.replaced = @ \ {id}]
  /\ UNCHANGED <<aux, remoteDocs, remoteBlob, publicFeed, signedIn, now, nextId,
                 syncInProgress, fg, pushes, sync, loadouts, notifications>>

\* ------------------------------------------------ comments and loadouts
\* the comment record addComment builds (lines 746-756); updatedAt 0 and
\* parentId 0 stand for null
NewComment(id, text, parentId, t) ==
  [id |-> id, userId |-> Me, text |-> text, createdAt |-> t, updatedAt |-> 0,
   upvotes |-> 0, downvotes |-> 0, parentId |-> parentId]

\* getNotifications (lines 1509-1544): without a stored list, three demo
\* notifications dated before now are stored and returned. The list is stored
\* empty by no call modelled, so the empty list stands for no stored list
GetNotifications(ns, t) ==
  IF ns = <<>>
  THEN <<[type |-> "comment", read |-> FALSE, createdAt |-> t - 1],
         [type |-> "follow", read |-> FALSE, createdAt |-> t - 2],
         [type |-> "upvote", read |-> TRUE, createdAt |-> t - 3]>>
  ELSE ns

\* faulty variant: beyond the cap the newest of the old items is dropped
CreateNotificationDropsNewest(ns, type, t) ==
  LET old == GetNotifications(ns, t)
      n   == [type |-> type, read |-> FALSE, createdAt |-> t]
  IN IF Len(old) + 1 > NOTIFICATION_CAP THEN <<n>> \o SubSeq(old, 2, Len(old))
     ELSE <<n>> \o old

\* createNotification (lines 1559-1579): unshift, then pop beyond 50 items
CreateNotification(ns, type, t) ==
  LET added == <<[type |-> type, read |-> FALSE, createdAt |-> t]>>
                 \o GetNotifications(ns, t)
  IN IF Len(added) > NOTIFICATION_CAP THEN SubSeq(added, 1, Len(added) - 1)
     ELSE added

\* addComment lines 765-784: the entry owner is notified of a comment by
\* somebody else, and so is the author of the comment replied to
NotifyComment(ns, e, parentId, t) ==
  LET n1 == IF e.owner # Me THEN CreateNotification(ns, "comment", t) ELSE ns
      pi == FindIndex(e.comments, parentId)
  IN IF parentId # 0 /\ pi # 0 /\ e.comments[pi].userId # Me
     THEN CreateNotification(n1, "comment", t) ELSE n1

\* addComment (lines 739-787)
AddComment(entryId, text, parentId) ==
  /\ LET idx == FindIndex(entries, entryId)
     IN IF idx = 0
        THEN /\ lastResult' = Result("addComment", entryId, 0,
                                     entryId \in IdsOf(entries), "null")
             /\ UNCHANGED <<entries, notifications, nextId, gh>>
        ELSE /\ nextId.c <= MaxComments
             /\ LET c  == NewComment(nextId.c, text, parentId, now)
                    es == [entries EXCEPT ![idx].comments = Append(@, c)]
                IN /\ entries' = es
                   /\ notifications' = NotifyComment(notifications, es[idx], parentId, now)
             /\ nextId' = [nextId EXCEPT !.c = @ + 1]
             /\ lastResult' = Result("addComment", entryId, 0,
                                     entryId \in IdsOf(entries), "comment")
             /\ gh' = Disturb(gh)
  /\ errlog' = FALSE
  /\ UNCHANGED <<aux, media, remoteDocs, remoteBlob, publicFeed, signedIn, now,
                 syncInProgress, fg, pushes, dels, sync, loadouts>>

\* the entry and the comment exist
CommentFound(es, entryId, commentId) ==
  /\ entryId \in IdsOf(es)
  /\ \E k \in 1..Len(es) : es[k].id = entryId /\ commentId \in IdsOf(es[k].comments)

\* editComment (lines 792-815): null without the entry, without the comment
\* or on somebody else's comment
EditComment(entryId, commentId, text) ==
  /\ LET idx  == FindIndex(entries, entryId)
         cidx == IF idx = 0 THEN 0 ELSE FindIndex(entries[idx].comments, commentId)
         fnd  == CommentFound(entries, entryId, commentId)
     IN IF idx = 0 \/ cidx = 0 \/ entries[idx].comments[cidx].userId # Me
        THEN /\ lastResult' = Result("editComment", entryId, 0, fnd, "null")
             /\ UNCHANGED <<entries, gh>>
        ELSE /\ entries' = [entries EXCEPT ![idx].comments[cidx] =
                               [@ EXCEPT !.text = text, !.updatedAt = now]]
             /\ lastResult' = Result("editComment", entryId, 0, fnd, "comment")
             /\ gh' = Disturb(gh)
  /\ errlog' = FALSE
  /\ UNCHANGED <<aux, media, remoteDocs, remoteBlob, publicFeed, signedIn, now, nextId,
                 syncInProgress, fg, pushes, dels, sync, loadouts, notifications>>

\* faulty variant: the replies to the replies go as well
RECURSIVE WithoutThread(_, _)
WithoutThread(cs, commentId) ==
  LET rest    == SelectSeq(cs, LAMBDA c : c.id # commentId)
      replies == {rest[k].id : k \in {n \in 1..Len(rest) : rest[n].parentId = commentId}}
  IN IF replies = {} THEN rest
     ELSE WithoutThread(rest, CHOOSE r \in replies : TRUE)

\* deleteComment lines 833-835: the comment, then the replies to it
WithoutComment(cs, commentId) ==
  SelectSeq(SelectSeq(cs, LAMBDA c : c.id # commentId),
            LAMBDA c : c.parentId # commentId)

\* faulty variant: the owner is not looked at
DeleteCommentAnyone(entryId, commentId) ==
  /\ LET idx  == FindIndex(entries, entryId)
         cidx == IF idx = 0 THEN 0 ELSE FindIndex(entries[idx].comments, commentId)
         fnd  == CommentFound(entries, entryId, commentId)
     IN IF idx = 0 \/ cidx = 0
        THEN /\ lastResult' = Result("deleteComment", entryId, 0, fnd, "false")
             /\ UNCHANGED <<entries, gh>>
        ELSE /\ entries' = [entries EXCEPT ![idx].comments =
                               WithoutComment(@, commentId)]
             /\ lastResult' = Result("deleteComment", entryId, 0, fnd, "true")
             /\ gh' = Disturb(gh)
  /\ errlog' = FALSE
  /\ UNCHANGED <<aux, media, remoteDocs, remoteBlob, publicFeed, signedIn, now, nextId,
                 syncInProgress, fg, pushes, dels, sync, loadouts, notifications>>

\* deleteComment (lines 820-838): false without the entry, without the
\* comment or on somebody else's comment
DeleteComment(entryId, commentId) ==
  /\ LET idx  == FindIndex(entries, entryId)
         cidx == IF idx = 0 THEN 0 ELSE FindIndex(entries[idx].comments, commentId)
         fnd  == CommentFound(entries, entryId, commentId)
     IN IF idx = 0 \/ cidx = 0 \/ entries[idx].comments[cidx].userId # Me
        THEN /\ lastResult' = Result("deleteComment", entryId, 0, fnd, "false")
             /\ UNCHANGED <<entries, gh>>
        ELSE /\ entries' = [entries EXCEPT ![idx].comments =
                               WithoutComment(@, commentId)]
             /\ lastResult' = Result("deleteComment", entryId, 0, fnd, "true")
             /\ gh' = Disturb(gh)
  /\ errlog' = FALSE
  /\ UNCHANGED <<aux, media, remoteDocs, remoteBlob, publicFeed, signedIn, now, nextId,
                 syncInProgress, fg, pushes, dels, sync, loadouts, notifications>>

\* ------------------------------------------------------ notifications
\* createNotification called for a follow-back (lines 1043-1051)
Notify(type) ==
  /\ notifications' = CreateNotification(notifications, type, now)
  /\ lastResult' = Result("createNotification", 0, 0, TRUE, "notification")
  /\ errlog' = FALSE
  /\ UNCHANGED <<aux, entries, media, remoteDocs, remoteBlob, publicFeed, signedIn, now,
                 nextId, syncInProgress, fg, pushes, dels, sync, loadouts, gh>>

\* ------------------------------------------------------- mock comments
\* the comments a MOCK_ENTRIES entry comes with: one, by somebody else
MockBase ==
  <<[NewComment(BaseCommentId, 1, 0, 0) EXCEPT !.userId = Other]>>

\* addMockComment (lines 1396-1431): stored apart from the entries; the author
\* of the comment replied to, looked up among the base and the added comments,
\* is notified
AddMockComment(text, parentId) ==
  /\ nextId.c <= MaxComments
  /\ LET cs  == Append(mockComments, NewComment(nextId.c, text, parentId, now))
         all == MockBase \o cs
         pi  == FindIndex(all, parentId)
     IN /\ mockComments' = cs
        /\ notifications' = IF parentId # 0 /\ pi # 0 /\ all[pi].userId # Me
                            THEN CreateNotification(notifications, "comment", now)
                            ELSE notifications
  /\ nextId' = [nextId EXCEPT !.c = @ + 1]
  /\ lastResult' = Result("addMockComment", MockId, 0, TRUE, "comment")
  /\ errlog' = FALSE
  /\ UNCHANGED <<entries, media, remoteDocs, remoteBlob, publicFeed, signedIn, now,
                 syncInProgress, fg, pushes, dels, sync, loadouts, gh, votes,
                 mockVotes, profile, remoteProfile, profileOps, thumbJob,
                 publicFeedCache, feedShown>>

\* editMockComment (lines 1436-1453): only the added comments are searched
EditMockComment(commentId, text) ==
  /\ LET idx == FindIndex(mockComments, commentId)
         fnd == commentId \in IdsOf(mockComments)
     IN IF idx = 0 \/ mockComments[idx].userId # Me
        THEN /\ lastResult' = Result("editMockComment", MockId, 0, fnd, "null")
             /\ UNCHANGED mockComments
        ELSE /\ mockComments' = [mockComments EXCEPT ![idx] =
                                    [@ EXCEPT !.text = text, !.updatedAt = now]]
             /\ lastResult' = Result("editMockComment", MockId, 0, fnd, "comment")
  /\ errlog' = FALSE
  /\ UNCHANGED <<entries, media, remoteDocs, remoteBlob, publicFeed, signedIn, now,
                 nextId, syncInProgress, fg, pushes, dels, sync, loadouts,
                 notifications, gh, votes, mockVotes, profile, remoteProfile, profileOps, thumbJob,
                 publicFeedCache, feedShown>>

\* deleteMockComment line 1468: the comment and the replies to it, one filter
WithoutMockComment(cs, commentId) ==
  SelectSeq(cs, LAMBDA c : c.id # commentId /\ c.parentId # commentId)

\* deleteMockComment (lines 1458-1471)
DeleteMockComment(commentId) ==
  /\ LET idx == FindIndex(mockComments, commentId)
         fnd == commentId \in IdsOf(mockComments)
     IN IF idx = 0 \/ mockComments[idx].userId # Me
        THEN /\ lastResult' = Result("deleteMockComment", MockId, 0, fnd, "false")
             /\ UNCHANGED mockComments
        ELSE /\ mockComments' = WithoutMockComment(mockComments, commentId)
             /\ lastResult' = Result("deleteMockComment", MockId, 0, fnd, "true")
  /\ errlog' = FALSE
  /\ UNCHANGED <<entries, media, remoteDocs, remoteBlob, publicFeed, signedIn, now,
                 nextId, syncInProgress, fg, pushes, dels, sync, loadouts,
                 notifications, gh, votes, mockVotes, profile, remoteProfile, profileOps, thumbJob,
                 publicFeedCache, feedShown>>

\* createLoadout (lines 1860-1884); name and params are one value each
CreateLoadout(name, d) ==
  /\ nextId.l <= MaxLoadouts
  /\ loadouts' = Append(loadouts, [id |-> nextId.l, name |-> name,
                                   createdAt |-> now, params |-> d])
  /\ nextId' = [nextId EXCEPT !.l = @ + 1]
  /\ lastResult' = Result("createLoadout", nextId.l, 0, TRUE, "loadout")
  /\ errlog' = FALSE
  /\ UNCHANGED <<aux, entries, media, remoteDocs, remoteBlob, publicFeed, signedIn, now,
                 syncInProgress, fg, pushes, dels, sync, notifications, gh>>

\* updateLoadout (lines 1889-1911): null without the loadout
UpdateLoadout(id, name, d) ==
  /\ LET idx == FindIndex(loadouts, id)
     IN IF idx = 0
        THEN /\ lastResult' = Result("updateLoadout", id, 0,
                                     id \in IdsOf(loadouts), "null")
             /\ loadouts' = loadouts
        ELSE /\ loadouts' = [loadouts EXCEPT ![idx].name = name, ![idx].params = d]
             /\ lastResult' = Result("updateLoadout", id, 0,
                                     id \in IdsOf(loadouts), "loadout")
  /\ errlog' = FALSE
  /\ UNCHANGED <<aux, entries, media, remoteDocs, remoteBlob, publicFeed, signedIn, now,
                 nextId, syncInProgress, fg, pushes, dels, sync, notifications, gh>>

\* ------------------------------------------------------- comment votes
\* faulty variant: no floor
DecBelowZero(n) == n - 1

\* Math.max(0, n - 1) (lines 1676, 1678, 1727, 1729)
DecFloor(n) == IF n - 1 > 0 THEN n - 1 ELSE 0

\* faulty variant: casting the stored vote again takes it off the counter but
\* keeps it stored
VoteCountsKeep(c, prev, v) ==
  LET up   == IF prev = 1 THEN DecFloor(c.upvotes) ELSE c.upvotes
      down == IF prev = -1 THEN DecFloor(c.downvotes) ELSE c.downvotes
  IN IF prev = v
     THEN [upvotes |-> up, downvotes |-> down, vote |-> v]
     ELSE [upvotes |-> IF v = 1 THEN up + 1 ELSE up,
           downvotes |-> IF v = -1 THEN down + 1 ELSE down,
           vote |-> v]

\* voteComment lines 1674-1691: the previous vote is taken off its counter,
\* then the same vote toggles off and another vote is stored and counted
VoteCounts(c, prev, v) ==
  LET up   == IF prev = 1 THEN DecFloor(c.upvotes) ELSE c.upvotes
      down == IF prev = -1 THEN DecFloor(c.downvotes) ELSE c.downvotes
  IN IF prev = v
     THEN [upvotes |-> up, downvotes |-> down, vote |-> 0]
     ELSE [upvotes |-> IF v = 1 THEN up + 1 ELSE up,
           downvotes |-> IF v = -1 THEN down + 1 ELSE down,
           vote |-> v]

\* voteComment (lines 1653-1703): nothing happens without the entry or the
\* comment
VoteComment(entryId, commentId, v) ==
  /\ LET idx  == FindIndex(entries, entryId)
         cidx == IF idx = 0 THEN 0 ELSE FindIndex(entries[idx].comments, commentId)
     IN IF idx = 0 \/ cidx = 0
        THEN /\ UNCHANGED <<entries, votes, gh>>
             /\ lastResult' = Result("vote", entryId, 0, FALSE, "void")
        ELSE LET r == VoteCounts(entries[idx].comments[cidx],
                                 votes[<<entryId, commentId>>], v)
             IN /\ r.upvotes < MaxCount /\ r.downvotes < MaxCount
                /\ entries' = [entries EXCEPT ![idx].comments[cidx] =
                                 [@ EXCEPT !.upvotes = r.upvotes,
                                           !.downvotes = r.downvotes]]
                /\ votes' = [votes EXCEPT ![<<entryId, commentId>>] = r.vote]
                /\ lastResult' = Result("vote", entryId, 0, TRUE, "void")
                /\ gh' = Disturb(gh)
  /\ errlog' = FALSE
  /\ UNCHANGED <<media, remoteDocs, remoteBlob, publicFeed, signedIn, now, nextId,
                 syncInProgress, fg, pushes, dels, sync, loadouts, notifications,
                 mockVotes, mockComments, profile, remoteProfile, profileOps, thumbJob,
                 publicFeedCache, feedShown>>

\* faulty variant: the same vote again is counted again
MockVoteCountsAgain(c, prev, v) ==
  LET up   == IF prev = 1 THEN DecFloor(c.upvotes) ELSE c.upvotes
      down == IF prev = -1 THEN DecFloor(c.downvotes) ELSE c.downvotes
  IN [upvotes |-> IF v = 1 THEN up + 1 ELSE up,
      downvotes |-> IF v = -1 THEN down + 1 ELSE down,
      vote |-> v]

\* voteMockComment lines 1725-1742
MockVoteCounts(c, prev, v) ==
  LET up   == IF prev = 1 THEN DecFloor(c.upvotes) ELSE c.upvotes
      down == IF prev = -1 THEN DecFloor(c.downvotes) ELSE c.downvotes
  IN IF prev = v
     THEN [upvotes |-> up, downvotes |-> down, vote |-> 0]
     ELSE [upvotes |-> IF v = 1 THEN up + 1 ELSE up,
           downvotes |-> IF v = -1 THEN down + 1 ELSE down,
           vote |-> v]

\* voteMockComment (lines 1708-1747): counters that do not exist start at 0/0
VoteMockComment(commentId, v) ==
  /\ LET r == MockVoteCounts(mockVotes[commentId], votes[<<MockId, commentId>>], v)
     IN /\ r.upvotes < MaxCount /\ r.downvotes < MaxCount
        /\ mockVotes' = [mockVotes EXCEPT ![commentId] =
                           [upvotes |-> r.upvotes, downvotes |-> r.downvotes]]
        /\ votes' = [votes EXCEPT ![<<MockId, commentId>>] = r.vote]
  /\ lastResult' = Result("voteMock", MockId, 0, TRUE, "void")
  /\ errlog' = FALSE
  /\ UNCHANGED <<entries, media, remoteDocs, remoteBlob, publicFeed, signedIn, now,
                 nextId, syncInProgress, fg, pushes, dels, sync, loadouts,
                 notifications, gh, mockComments, profile, remoteProfile, profileOps, thumbJob,
                 publicFeedCache, feedShown>>

\* getMockComments lines 1495-1499: the counters shown for a comment are the
\* stored vote counts, or the comment's own where those are absent or zero
GetMockCommentCounts(c, mv) ==
  [upvotes   |-> IF mv.upvotes # 0 THEN mv.upvotes ELSE c.upvotes,
   downvotes |-> IF mv.downvotes # 0 THEN mv.downvotes ELSE c.downvotes]

\* voteComment(entryId, c, v) and voteMockComment(mock, m, v) called one after
\* the other by the same task: the same vote on a comment of an entry and on
\* a comment of the mock entry
VotePair(entryId, c, m, v) ==
  /\ FindIndex(entries, entryId) # 0
  /\ FindIndex(entries[FindIndex(entries, entryId)].comments, c) # 0
  /\ FindIndex(mockComments, m) # 0
  /\ LET idx  == FindIndex(entries, entryId)
         cidx == FindIndex(entries[idx].comments, c)
         r    == VoteCounts(entries[idx].comments[cidx], votes[<<entryId, c>>], v)
         q    == MockVoteCounts(mockVotes[m], votes[<<MockId, m>>], v)
     IN /\ r.upvotes < MaxCount /\ r.downvotes < MaxCount
        /\ q.upvotes < MaxCount /\ q.downvotes < MaxCount
        /\ entries' = [entries EXCEPT ![idx].comments[cidx] =
                         [@ EXCEPT !.upvotes = r.upvotes, !.downvotes = r.downvotes]]
        /\ mockVotes' = [mockVotes EXCEPT ![m] =
                           [upvotes |-> q.upvotes, downvotes |-> q.downvotes]]
        /\ votes' = [votes EXCEPT ![<<entryId, c>>] = r.vote, ![<<MockId, m>>] = q.vote]
  /\ lastResult' = Result("votePair", entryId, 0, TRUE, "void")
  /\ errlog' = FALSE
  /\ gh' = Disturb(gh)
  /\ UNCHANGED <<media, remoteDocs, remoteBlob, publicFeed, signedIn, now, nextId,
                 syncInProgress, fg, pushes, dels, sync, loadouts, notifications,
                 mockComments, profile, remoteProfile, profileOps, thumbJob,
                 publicFeedCache, feedShown>>

\* ------------------------------------------------------ full sync: locals
\* snapshot.forEach over a query ordered by createdAt desc (lines 458-465)
RECURSIVE DocsFrom(_, _)
DocsFrom(docs, k) ==
  IF k > MaxEntries THEN <<>>
  ELSE (IF HasDoc(docs, k) THEN <<DocOf(docs, k)>> ELSE <<>>) \o DocsFrom(docs, k + 1)

ListRemote(docs) == SortDesc(DocsFrom(docs, 1))

\* faulty variant: the cloud version of an entry that exists locally is added
MergeExistingAppend(loc, c) == Append(loc, c)

\* faulty variant: the cloud version also wins a tie
MergeExistingOnTie(loc, c) ==
  LET idx == FindIndex(loc, c.id)
      l   == loc[idx]
  IN IF c.syncedAt >= l.syncedAt
     THEN [loc EXCEPT ![idx] = [c EXCEPT !.thumb = l.thumb]]
     ELSE loc

\* lines 496-508: an entry that exists locally is replaced by the cloud
\* version, keeping the local thumbnail, when the cloud syncedAt is newer
MergeExisting(loc, c) ==
  LET idx == FindIndex(loc, c.id)
      l   == loc[idx]
  IN IF c.syncedAt > l.syncedAt
     THEN [loc EXCEPT ![idx] = [c EXCEPT !.thumb = l.thumb]]
     ELSE loc

\* the loop of lines 476-515 from cloud entry i up to the next await: an entry
\* missing locally that has a cloud URL suspends in downloadMediaFromCloud
RECURSIVE ProcessCloud(_, _, _, _)
ProcessCloud(loc, cloud, i, localIds) ==
  IF i > Len(cloud) THEN [loc |-> loc, i |-> i]
  ELSE IF cloud[i].id \notin localIds
       THEN IF cloud[i].cloudUrl # 0
            THEN [loc |-> loc, i |-> i]
            ELSE ProcessCloud(Append(loc, cloud[i]), cloud, i + 1, localIds)
       ELSE ProcessCloud(MergeExisting(loc, cloud[i]), cloud, i + 1, localIds)

\* syncAllToCloud lines 407-422: without identity or entries it returns, else
\* it suspends in getMedia for the first entry
BeginPushAll(si, es) ==
  IF ~si \/ es = <<>> THEN SyncIdle
  ELSE [SyncIdle EXCEPT !.pc = "getMedia", !.ents = es, !.j = 1]

\* syncAllToCloud lines 429-436: after one entry, the next getMedia or the end
NextPush(sy) ==
  IF sy.j + 1 > Len(sy.ents) THEN SyncIdle
  ELSE [sy EXCEPT !.pc = "getMedia", !.j = @ + 1]

\* faulty variant: the cloud URL is not looked at
NeedsMediaUploadAlways(blob, e) == blob # 0

\* line 425: upload only with local media and no cloud URL yet
NeedsMediaUpload(blob, e) == blob # 0 /\ e.cloudUrl = 0

\* faulty variant: syncAllToCloud starts while a download is still awaited
AfterPullEarly(sy, r, si) == BeginPushAll(si, SortDesc(r.loc))

\* the position of a fullSync invocation after a step of its pull phase: the
\* loop went on to the next download, or ended with sort + saveEntries
\* (lines 517-527) followed by syncAllToCloud
AfterPull(sy, r, si) ==
  IF r.i > Len(sy.cloud) THEN BeginPushAll(si, SortDesc(r.loc))
  ELSE [sy EXCEPT !.pc = "download", !.loc = r.loc, !.i = r.i]

\* ------------------------------------------- history of a fullSync run
OthersIdle(s) == \A o \in SyncIds \ {s} : sync[o].pc = "idle"

\* invocation s starts: it is observed when nothing else is in flight
RunStart(g, s) ==
  IF pushes = {} /\ dels = {} /\ fg.pc = "idle" /\ OthersIdle(s)
  THEN [just |-> FALSE, replaced |-> g.replaced, s |-> s, second |-> g.just,
        uploaded |-> FALSE, due |-> g.replaced,
        snap |-> IF g.just THEN <<entries, remoteDocs, remoteBlob>> ELSE <<>>]
  ELSE Disturb(g)

\* invocation s takes a step; ok: no remote call failed in it; up: it uploaded
\* a blob; done: performFullSync returned
RunStep(g, s, ok, up, done) ==
  IF g.s = s /\ ok
  THEN IF done THEN [Disturb(g) EXCEPT !.just = TRUE, !.replaced = {}]
       ELSE [g EXCEPT !.uploaded = @ \/ up]
  ELSE [Disturb(g) EXCEPT !.replaced = IF done THEN {} ELSE @]

\* ----------------------------------------------- syncEntryToCloud steps
\* the sync state and history after push p ended (it belongs to invocation
\* p.owner, or to nobody)
SyncAfterPush(p) ==
  IF p.owner = 0 THEN sync ELSE [sync EXCEPT ![p.owner] = NextPush(@)]

GhAfterPush(p, ok, up, ended) ==
  IF p.owner = 0 THEN Disturb(gh)
  ELSE RunStep(gh, p.owner, ok, up,
               ended /\ sync[p.owner].j + 1 > Len(sync[p.owner].ents))

\* uploadMediaToCloud resolved (lines 137-154) with the URL, or null after an
\* error; then cloudEntry is built with syncedAt = Date.now() (lines 219-231)
PushUpload(p, ok) ==
  /\ p \in pushes /\ p.pc = "upload"
  /\ remoteBlob' = IF ok THEN [remoteBlob EXCEPT ![p.entry.id] = p.blob] ELSE remoteBlob
  /\ pushes' = (pushes \ {p}) \cup
        {[p EXCEPT !.pc = "set", !.mediaUrl = IF ok THEN p.entry.id ELSE 0,
                   !.stamp = now]}
  /\ errlog' = ~ok
  /\ gh' = GhAfterPush(p, ok, ok, FALSE)
  /\ lastResult' = NoResult
  /\ UNCHANGED <<aux, entries, media, remoteDocs, publicFeed, signedIn, now, nextId,
                 syncInProgress, fg, dels, sync, loadouts, notifications>>

\* entryRef.set rejected (line 231): catch, log, return false (lines 253-256)
PushSetFail(p) ==
  /\ p \in pushes /\ p.pc = "set"
  /\ pushes' = pushes \ {p}
  /\ errlog' = TRUE
  /\ lastResult' = OnPushError(lastResult)
  /\ sync' = SyncAfterPush(p)
  /\ gh' = GhAfterPush(p, FALSE, FALSE, TRUE)
  /\ UNCHANGED <<aux, entries, media, remoteDocs, remoteBlob, publicFeed, signedIn, now,
                 nextId, syncInProgress, fg, dels, loadouts, notifications>>

\* addToPublicFeed returns false at once without an identity (lines 286-287)
FeedSkipped(p) == p.entry.isPublic /\ ~signedIn

\* entryRef.set resolved (line 231): the local cloud URL is written back
\* (lines 235-242) and the public feed write is requested (lines 245-250)
PushSet(p) ==
  /\ p \in pushes /\ p.pc = "set"
  /\ remoteDocs' = DocSet(remoteDocs, p.entry.id, CloudEntry(p.entry, p.mediaUrl, p.stamp))
  /\ entries' = WriteBackUrl(entries, p.entry.id, p.mediaUrl)
  /\ IF FeedSkipped(p)
     THEN /\ pushes' = pushes \ {p}
          /\ sync' = SyncAfterPush(p)
          /\ gh' = GhAfterPush(p, TRUE, FALSE, TRUE)
     ELSE /\ pushes' = (pushes \ {p}) \cup {[p EXCEPT !.pc = "feed", !.stamp = now]}
          /\ sync' = sync
          /\ gh' = GhAfterPush(p, TRUE, FALSE, FALSE)
  /\ lastResult' = NoResult
  /\ errlog' = FALSE
  /\ UNCHANGED <<aux, media, remoteBlob, publicFeed, signedIn, now, nextId,
                 syncInProgress, fg, dels, loadouts, notifications>>

\* the publicFeed document after addToPublicFeed / removeFromPublicFeed
\* (lines 245-250, 319, 334)
FeedWrite(feed, p) ==
  IF p.entry.isPublic
  THEN DocSet(feed, p.entry.id, PublicEntry(p.entry, p.mediaUrl, p.stamp))
  ELSE DocDelete(feed, p.entry.id)

\* the public feed request resolved or failed (its error is caught inside
\* addToPublicFeed / removeFromPublicFeed); syncEntryToCloud returns true
PushFeed(p, ok) ==
  /\ p \in pushes /\ p.pc = "feed"
  /\ publicFeed' = IF ok THEN FeedWrite(publicFeed, p) ELSE publicFeed
  /\ pushes' = pushes \ {p}
  /\ errlog' = ~ok
  /\ sync' = SyncAfterPush(p)
  /\ gh' = GhAfterPush(p, ok, FALSE, TRUE)
  /\ lastResult' = NoResult
  /\ UNCHANGED <<aux, entries, media, remoteDocs, remoteBlob, signedIn, now, nextId,
                 syncInProgress, fg, dels, loadouts, notifications>>

\* deleteEntryFromCloud (lines 262-276): the document delete rejects (catch,
\* nothing else is tried), or it resolves and the blob and the public mirror
\* are deleted, each with its own swallowed failure (lines 185-199, 331-342)
RemoteDelete(id, okDoc, okBlob, okFeed) ==
  /\ id \in dels
  /\ dels' = dels \ {id}
  /\ remoteDocs' = IF okDoc THEN DocDelete(remoteDocs, id) ELSE remoteDocs
  /\ remoteBlob' = IF okDoc /\ okBlob /\ signedIn
                   THEN [remoteBlob EXCEPT ![id] = 0] ELSE remoteBlob
  /\ publicFeed' = IF okDoc /\ okFeed THEN DocDelete(publicFeed, id) ELSE publicFeed
  /\ errlog' = ~(okDoc /\ okBlob /\ okFeed)
  /\ lastResult' = NoResult
  /\ gh' = Disturb(gh)
  /\ UNCHANGED <<aux, entries, media, signedIn, now, nextId, syncInProgress, fg, pushes,
                 sync, loadouts, notifications>>

\* ------------------------------------------------------ performFullSync
\* performFullSync called without an identity (lines 534-535): nothing happens
FullSyncNoIdentity ==
  /\ ~signedIn
  /\ lastResult' = Result("fullSync", 0, 0, TRUE, "skipped")
  /\ errlog' = FALSE
  /\ UNCHANGED <<aux, entries, media, remoteDocs, remoteBlob, publicFeed, signedIn, now,
                 nextId, syncInProgress, fg, pushes, dels, sync, loadouts,
                 notifications, gh>>

\* performFullSync lines 533-540 and syncFromCloud lines 442-460: with the
\* guard flag set the pull returns at once and syncAllToCloud starts; else the
\* flag is set and the listing is awaited
FullSyncStart(s) ==
  /\ signedIn
  /\ sync[s].pc = "idle"
  /\ LET sy == IF syncInProgress THEN BeginPushAll(signedIn, entries)
               ELSE [SyncIdle EXCEPT !.pc = "list"]
     IN /\ sync' = [sync EXCEPT ![s] = sy]
        /\ gh' = IF sy.pc = "idle"
                 THEN RunStep(RunStart(gh, s), s, TRUE, FALSE, TRUE)
                 ELSE RunStart(gh, s)
  /\ syncInProgress' = TRUE
  /\ lastResult' = Result("fullSync", 0, 0, TRUE, "started")
  /\ errlog' = FALSE
  /\ UNCHANGED <<aux, entries, media, remoteDocs, remoteBlob, publicFeed, signedIn, now,
                 nextId, fg, pushes, dels, loadouts, notifications>>

\* the listing rejected (lines 458-460): catch, finally clears the flag
\* (lines 523-527), performFullSync goes on with syncAllToCloud
SyncListFail(s) ==
  /\ sync[s].pc = "list"
  /\ LET sy == BeginPushAll(signedIn, entries)
     IN /\ sync' = [sync EXCEPT ![s] = sy]
        /\ gh' = RunStep(gh, s, FALSE, FALSE, sy.pc = "idle")
  /\ syncInProgress' = FALSE
  /\ errlog' = TRUE
  /\ lastResult' = NoResult
  /\ UNCHANGED <<aux, entries, media, remoteDocs, remoteBlob, publicFeed, signedIn, now,
                 nextId, fg, pushes, dels, loadouts, notifications>>

\* the listing resolved (lines 462-476): the local collection is read and the
\* cloud entries are merged into that copy up to the first download
SyncList(s) ==
  /\ sync[s].pc = "list"
  /\ \E base \in {[SyncIdle EXCEPT !.cloud = ListRemote(remoteDocs),
                                     !.localIds = IdsOf(entries)]} :
     \E r \in {ProcessCloud(entries, base.cloud, 1, base.localIds)} :
     LET sy   == AfterPull(base, r, signedIn)
         done == r.i > Len(base.cloud)
     IN /\ sync' = [sync EXCEPT ![s] = sy]
        /\ entries' = IF done THEN SortDesc(r.loc) ELSE entries
        /\ syncInProgress' = ~done
        /\ gh' = RunStep(gh, s, TRUE, FALSE, sy.pc = "idle")
  /\ lastResult' = NoResult
  /\ errlog' = FALSE
  /\ UNCHANGED <<aux, media, remoteDocs, remoteBlob, publicFeed, signedIn, now, nextId,
                 fg, pushes, dels, loadouts, notifications>>

\* downloadMediaFromCloud (lines 159-180): the blob, or null without identity,
\* without a stored object or after an error
Downloaded(si, ok, blob) == IF si /\ ok THEN blob ELSE 0

\* the download for cloud entry i resolved (lines 482-493): a blob is stored
\* and thumbnailed (th = 0: createThumbnail gave null), the entry is added to
\* the copy of the collection, and the loop goes on (lines 476-527)
SyncDownload(s, ok, th) ==
  /\ sync[s].pc = "download"
  /\ LET cur  == sync[s]
         c    == cur.cloud[cur.i]
         blob == Downloaded(signedIn, ok, remoteBlob[c.id])
         got  == [c EXCEPT !.thumb = IF blob # 0 /\ th THEN blob ELSE 0]
         r    == ProcessCloud(Append(cur.loc, got), cur.cloud, cur.i + 1, cur.localIds)
         sy   == AfterPull(cur, r, signedIn)
         done == r.i > Len(cur.cloud)
     IN /\ media' = IF blob # 0 THEN SaveMedia(media, c.id, blob) ELSE media
        /\ sync' = [sync EXCEPT ![s] = sy]
        /\ entries' = IF done THEN SortDesc(r.loc) ELSE entries
        /\ syncInProgress' = ~done
        /\ errlog' = ~ok
        /\ gh' = RunStep(gh, s, ok, FALSE, sy.pc = "idle")
  /\ thumbJob' = ThumbIdle
  /\ lastResult' = NoResult
  /\ UNCHANGED <<sideStores, remoteDocs, remoteBlob, publicFeed, signedIn, now, nextId, fg,
                 pushes, dels, loadouts, notifications>>

\* syncAllToCloud lines 420-427: getMedia resolved for entry j and
\* syncEntryToCloud is called with the blob only when it needs uploading
SyncGetMedia(s) ==
  /\ sync[s].pc = "getMedia"
  /\ LET cur   == sync[s]
         e     == cur.ents[cur.j]
         b     == IF NeedsMediaUpload(media[e.id], e) THEN media[e.id] ELSE 0
         tasks == NewPush(signedIn, e, b, s, now)
         sy    == IF tasks = {} THEN NextPush(cur) ELSE [cur EXCEPT !.pc = "push"]
     IN /\ pushes' = pushes \cup tasks
        /\ sync' = [sync EXCEPT ![s] = sy]
        /\ gh' = RunStep(gh, s, TRUE, FALSE, sy.pc = "idle")
  /\ lastResult' = NoResult
  /\ errlog' = FALSE
  /\ UNCHANGED <<aux, entries, media, remoteDocs, remoteBlob, publicFeed, signedIn, now,
                 nextId, syncInProgress, fg, dels, loadouts, notifications>>

\* ------------------------------------------------------------ profile
\* saveProfile (lines 980-982) with the name the page's form holds
SaveProfile(name) ==
  /\ profile' = name
  /\ lastResult' = Result("saveProfile", 0, 0, TRUE, "void")
  /\ errlog' = FALSE
  /\ UNCHANGED <<entries, media, remoteDocs, remoteBlob, publicFeed, signedIn, now,
                 nextId, syncInProgress, fg, pushes, dels, sync, loadouts,
                 notifications, gh, votes, mockVotes, mockComments, remoteProfile,
                 profileOps, thumbJob,
                 publicFeedCache, feedShown>>

\* syncProfileToCloud (lines 551-560): returns without an identity; else the
\* profile read now is sent
PushProfileStart ==
  /\ \A o \in profileOps : o.op # "push"
  /\ IF ~signedIn
     THEN /\ profileOps' = profileOps
          /\ lastResult' = Result("pushProfile", 0, 0, TRUE, "skipped")
     ELSE /\ profileOps' = profileOps \cup {[op |-> "push", name |-> profile]}
          /\ lastResult' = Result("pushProfile", 0, 0, TRUE, "started")
  /\ errlog' = FALSE
  /\ UNCHANGED <<entries, media, remoteDocs, remoteBlob, publicFeed, signedIn, now,
                 nextId, syncInProgress, fg, pushes, dels, sync, loadouts,
                 notifications, gh, votes, mockVotes, mockComments, profile,
                 remoteProfile, thumbJob,
                 publicFeedCache, feedShown>>

\* the set of lines 560-563 resolved, or rejected (catch, lines 566-568)
PushProfileSet(o, ok) ==
  /\ o \in profileOps /\ o.op = "push"
  /\ profileOps' = profileOps \ {o}
  /\ remoteProfile' = IF ok THEN [exists |-> TRUE, name |-> o.name] ELSE remoteProfile
  /\ errlog' = ~ok
  /\ lastResult' = NoResult
  /\ UNCHANGED <<entries, media, remoteDocs, remoteBlob, publicFeed, signedIn, now,
                 nextId, syncInProgress, fg, pushes, dels, sync, loadouts,
                 notifications, gh, votes, mockVotes, mockComments, profile, thumbJob,
                 publicFeedCache, feedShown>>

\* syncProfileFromCloud (lines 573-579): returns without an identity; else the
\* user document is requested
PullProfileStart ==
  /\ \A o \in profileOps : o.op # "pull"
  /\ IF ~signedIn
     THEN /\ profileOps' = profileOps
          /\ lastResult' = Result("pullProfile", 0, 0, TRUE, "skipped")
     ELSE /\ profileOps' = profileOps \cup {[op |-> "pull", name |-> 0]}
          /\ lastResult' = Result("pullProfile", 0, 0, TRUE, "started")
  /\ errlog' = FALSE
  /\ UNCHANGED <<entries, media, remoteDocs, remoteBlob, publicFeed, signedIn, now,
                 nextId, syncInProgress, fg, pushes, dels, sync, loadouts,
                 notifications, gh, votes, mockVotes, mockComments, profile,
                 remoteProfile, thumbJob,
                 publicFeedCache, feedShown>>

\* the get of line 579 resolved: a cloud profile replaces the local fields,
\* the local id is kept (lines 581-592); or it rejected (catch, lines 595-597)
PullProfileGot(o, ok) ==
  /\ o \in profileOps /\ o.op = "pull"
  /\ profileOps' = profileOps \ {o}
  /\ profile' = IF ok /\ remoteProfile.exists THEN remoteProfile.name ELSE profile
  /\ errlog' = ~ok
  /\ lastResult' = NoResult
  /\ UNCHANGED <<entries, media, remoteDocs, remoteBlob, publicFeed, signedIn, now,
                 nextId, syncInProgress, fg, pushes, dels, sync, loadouts,
                 notifications, gh, votes, mockVotes, mockComments, remoteProfile, thumbJob,
                 publicFeedCache, feedShown>>

\* ------------------------------------------- cloud calls, no identity
\* the exported cloud operations the page may call by themselves
CloudOps == {"pushEntry", "deleteRemote", "pullAll", "pushAllLocal"}

\* syncEntryToCloud (lines 204-206), deleteEntryFromCloud (lines 262-264),
\* syncFromCloud (lines 442-447) and syncAllToCloud (lines 407-412) called
\* without an identity return at the check; syncEntryToCloud returns false
CloudCallNoIdentity(op) ==
  /\ ~signedIn
  /\ lastResult' = Result(op, 0, 0, TRUE, IF op = "pushEntry" THEN "false" ELSE "skipped")
  /\ errlog' = FALSE
  /\ UNCHANGED <<aux, entries, media, remoteDocs, remoteBlob, publicFeed, signedIn, now,
                 nextId, syncInProgress, fg, pushes, dels, sync, loadouts,
                 notifications, gh>>

\* ------------------------------------------------------- environment
\* another installation of the same identity (its getProfile().id is Other)
\* has added a comment to its copy of entry id, and the requests of its
\* syncEntryToCloud land: document set, then public mirror written or removed
OtherDeviceComment(id) ==
  /\ HasDoc(remoteDocs, id)
  /\ nextId.c <= MaxComments
  /\ LET d == DocOf(remoteDocs, id)
         c == [NewComment(nextId.c, 1, 0, now) EXCEPT !.userId = Other]
         e == [d EXCEPT !.comments = Append(@, c)]
     IN /\ remoteDocs' = DocSet(remoteDocs, id, CloudEntry(e, d.cloudUrl, now))
        /\ publicFeed' = IF d.isPublic
                         THEN DocSet(publicFeed, id, PublicEntry(e, d.cloudUrl, now))
                         ELSE DocDelete(publicFeed, id)
  /\ nextId' = [nextId EXCEPT !.c = @ + 1]
  /\ gh' = Disturb(gh)
  /\ lastResult' = NoResult
  /\ errlog' = FALSE
  /\ UNCHANGED <<aux, entries, media, remoteBlob, signedIn, now, syncInProgress, fg,
                 pushes, dels, sync, loadouts, notifications>>

\* firebaseAuth.currentUser changes (sign-in / sign-out in auth.js)
SignIn ==
  /\ ~signedIn
  /\ signedIn' = TRUE
  /\ gh' = Disturb(gh)
  /\ lastResult' = NoResult
  /\ errlog' = FALSE
  /\ UNCHANGED <<aux, entries, media, remoteDocs, remoteBlob, publicFeed, now, nextId,
                 syncInProgress, fg, pushes, dels, sync, loadouts, notifications>>

SignOut ==
  /\ signedIn
  /\ signedIn' = FALSE
  /\ gh' = Disturb(gh)
  /\ lastResult' = NoResult
  /\ errlog' = FALSE
  /\ UNCHANGED <<aux, entries, media, remoteDocs, remoteBlob, publicFeed, now, nextId,
                 syncInProgress, fg, pushes, dels, sync, loadouts, notifications>>

\* faulty variant: the exception leaves the guard flag set
SyncThrowKeepsFlag(s) ==
  /\ sync[s].pc = "download"
  /\ LET sy == BeginPushAll(signedIn, entries)
     IN /\ sync' = [sync EXCEPT ![s] = sy]
        /\ gh' = RunStep(gh, s, FALSE, FALSE, sy.pc = "idle")
  /\ syncInProgress' = syncInProgress
  /\ errlog' = TRUE
  /\ lastResult' = NoResult
  /\ UNCHANGED <<aux, entries, media, remoteDocs, remoteBlob, publicFeed, signedIn, now,
                 nextId, fg, pushes, dels, loadouts, notifications>>

\* syncFromCloud lines 520-524: saveMedia rejects in the loop or saveEntries
\* throws after it; the exception is caught and logged, nothing is saved, the
\* finally block clears the guard flag and performFullSync goes on with
\* syncAllToCloud
SyncThrow(s) ==
  /\ sync[s].pc = "download"
  /\ LET sy == BeginPushAll(signedIn, entries)
     IN /\ sync' = [sync EXCEPT ![s] = sy]
        /\ gh' = RunStep(gh, s, FALSE, FALSE, sy.pc = "idle")
  /\ syncInProgress' = FALSE
  /\ errlog' = TRUE
  /\ lastResult' = NoResult
  /\ UNCHANGED <<aux, entries, media, remoteDocs, remoteBlob, publicFeed, signedIn, now,
                 nextId, fg, pushes, dels, loadouts, notifications>>

\* ---- createThumbnail: the promise and the events that settle it ----

MediaTypes == {"image", "video"}

\* resolve(v): settles the promise once; a later resolve changes nothing
Resolve(j, v) ==
  IF j.settled THEN j ELSE [j EXCEPT !.settled = TRUE, !.result = v]

\* clearTimeout(timeoutId)
ClearTimer(j) == [j EXCEPT !.timer = FALSE]

\* the executor: the 10 second timer is armed, then the handlers are set and
\* the source is assigned; an exception there is caught, the timer cleared and
\* null resolved
StartJob(caller, b, type, throws) ==
  LET armed == [ThumbIdle EXCEPT !.pc = "loading", !.caller = caller, !.blob = b,
                                 !.type = type, !.timer = TRUE]
  IN IF throws THEN [Resolve(ClearTimer(armed), 0) EXCEPT !.pc = "over"] ELSE armed

\* faulty variant: the loadeddata handler clears the timer
OnLoadedDataClears(j) == [ClearTimer(j) EXCEPT !.pc = "seeking"]

\* video.onloadeddata: only the seek is requested, the timer stays armed
OnLoadedData(j) == [j EXCEPT !.pc = "seeking"]

\* img.onload and video.onseeked: the timer is cleared, the frame is drawn and
\* the data URL resolved; a failing draw resolves null
OnDrawn(j, drawOk) ==
  [Resolve(ClearTimer(j), IF drawOk THEN j.blob ELSE 0) EXCEPT !.pc = "over"]

\* img.onerror and video.onerror
OnError(j) == [Resolve(ClearTimer(j), 0) EXCEPT !.pc = "over"]

\* the timer fires: null is resolved
OnTimeout(j) == Resolve(ClearTimer(j), 0)

ThumbStep(j, err) ==
  /\ thumbJob' = j
  /\ errlog' = err
  /\ lastResult' = NoResult
  /\ UNCHANGED <<sideStores, entries, remoteDocs, remoteBlob, publicFeed, signedIn, now,
                 nextId, syncInProgress, fg, pushes, dels, sync, loadouts,
                 notifications, gh>>

\* createEntry is called with a media blob: it awaits createThumbnail first
ThumbCreate(b, type, throws) ==
  /\ CanCall
  /\ nextId.e <= MaxEntries
  /\ thumbJob.pc = "idle"
  /\ b # 0
  /\ media' = media
  /\ ThumbStep(StartJob("create", b, type, throws), throws)

\* syncFromCloud has downloaded the media of the cloud entry it is at: the
\* blob is saved and createThumbnail awaited
ThumbPull(s, type, throws) ==
  /\ sync[s].pc = "download"
  /\ thumbJob.pc = "idle"
  /\ LET c    == sync[s].cloud[sync[s].i]
         blob == Downloaded(signedIn, TRUE, remoteBlob[c.id])
     IN /\ blob # 0
        /\ media' = SaveMedia(media, c.id, blob)
        /\ ThumbStep(StartJob("pull", blob, type, throws), throws)

\* the load event of the image, the loadeddata event of the video
ThumbLoad(drawOk) ==
  /\ thumbJob.pc = "loading"
  /\ media' = media
  /\ ThumbStep(IF thumbJob.type = "image" THEN OnDrawn(thumbJob, drawOk)
               ELSE OnLoadedData(thumbJob), FALSE)

\* the seeked event of the video
ThumbSeeked(drawOk) ==
  /\ thumbJob.pc = "seeking"
  /\ media' = media
  /\ ThumbStep(OnDrawn(thumbJob, drawOk), FALSE)

\* the error event of the image or the video
ThumbError ==
  /\ thumbJob.pc \in {"loading", "seeking"}
  /\ media' = media
  /\ ThumbStep(OnError(thumbJob), TRUE)

\* the 10 second timer fires
ThumbTimeout ==
  /\ thumbJob.timer
  /\ media' = media
  /\ ThumbStep(OnTimeout(thumbJob), TRUE)

\* createEntry resumes with the value its createThumbnail promise resolved
CreateResume ==
  /\ thumbJob.settled
  /\ thumbJob.caller = "create"
  /\ \E d \in {1}, pub \in {FALSE} :
       CreateStart(d, pub, thumbJob.blob, thumbJob.result)

\* syncFromCloud resumes with the value its createThumbnail promise resolved
PullResume ==
  /\ thumbJob.settled
  /\ thumbJob.caller = "pull"
  /\ \E s \in SyncIds : SyncDownload(s, TRUE, thumbJob.result # 0)

\* the download of the media fails: no thumbnail is made
PullNoMedia ==
  /\ thumbJob.pc = "idle"
  /\ \E s \in SyncIds : SyncDownload(s, FALSE, FALSE)

Thumbnails ==
  \/ \E type \in MediaTypes, throws \in BOOLEAN : ThumbCreate(1, type, throws)
  \/ \E s \in {1}, type \in MediaTypes, throws \in BOOLEAN : ThumbPull(s, type, throws)
  \/ \E drawOk \in BOOLEAN : ThumbLoad(drawOk)
  \/ \E drawOk \in BOOLEAN : ThumbSeeked(drawOk)
  \/ ThumbError
  \/ ThumbTimeout
  \/ CreateResume
  \/ PullResume
  \/ PullNoMedia

\* ---- the community feed ----

\* the built-in demo entries, dated before the page was loaded
MOCK_ENTRIES == <<[id |-> MockId, createdAt |-> 0, data |-> 0, owner |-> Other]>>

\* the documents of a collection, newest first (orderBy createdAt desc)
RECURSIVE OrderByCreatedDesc(_)
OrderByCreatedDesc(c) ==
  IF c = {} THEN <<>>
  ELSE LET d == CHOOSE x \in c : \A y \in c : x.createdAt >= y.createdAt
       IN <<d>> \o OrderByCreatedDesc(c \ {d})

\* fetchPublicFeed: the query result, an empty list when the query fails
FetchPublicFeed(ok, c) ==
  IF ok
  THEN LET docs == OrderByCreatedDesc(c)
       IN [k \in 1..Len(docs) |->
             [id |-> docs[k].id, createdAt |-> docs[k].createdAt, data |-> docs[k].data,
              owner |-> docs[k].owner]]
  ELSE <<>>

\* getPublicFeedCached: a filled cache younger than the TTL is returned,
\* otherwise the collection is fetched
GetPublicFeedCached(cache, fresh, fetched) ==
  IF Len(cache) > 0 /\ fresh THEN cache ELSE fetched

\* the caller's entry as shown in the feed, with the profile's identity
OwnFeedEntry(e) == [id |-> e.id, createdAt |-> e.createdAt, data |-> e.data, owner |-> Me]

InFeed(f, id) == \E k \in 1..Len(f) : f[k].id = id

RECURSIVE OwnPublic(_, _)
OwnPublic(es, f) ==
  IF es = <<>> THEN <<>>
  ELSE (IF Head(es).isPublic /\ ~InFeed(f, Head(es).id)
        THEN <<OwnFeedEntry(Head(es))>> ELSE <<>>) \o OwnPublic(Tail(es), f)

\* faulty variant: the entries that are not public are listed too
GetCommunityFeedAll(publicEntries, es) ==
  LET base == IF Len(publicEntries) > 0 THEN publicEntries ELSE MOCK_ENTRIES
  IN SortDesc(base \o [k \in 1..Len(es) |-> OwnFeedEntry(es[k])])

\* getCommunityFeed without a filter: the public entries, or the demo
\* entries when there are none, then the caller's own public entries that are
\* not among them, sorted by createdAt descending
GetCommunityFeed(publicEntries, es) ==
  LET base == IF Len(publicEntries) > 0 THEN publicEntries ELSE MOCK_ENTRIES
  IN SortDesc(base \o OwnPublic(es, base))

\* a getCommunityFeed() call
GetFeed(ok, fresh) ==
  /\ LET publicEntries ==
           GetPublicFeedCached(publicFeedCache, fresh, FetchPublicFeed(ok, publicFeed))
     IN /\ publicFeedCache' = publicEntries
        /\ feedShown' = GetCommunityFeed(publicEntries, entries)
  /\ lastResult' = Result("getFeed", 0, 0, TRUE, "feed")
  /\ errlog' = FALSE
  /\ UNCHANGED <<votes, mockVotes, mockComments, profile, remoteProfile, profileOps,
                 thumbJob, entries, media, remoteDocs, remoteBlob, publicFeed, signedIn,
                 now, nextId, syncInProgress, fg, pushes, dels, sync, loadouts,
                 notifications, gh>>

\* the clock advances
Tick ==
  /\ now < MaxClock
  /\ now' = now + 1
  /\ lastResult' = NoResult
  /\ errlog' = FALSE
  /\ UNCHANGED <<aux, entries, media, remoteDocs, remoteBlob, publicFeed, signedIn,
                 nextId, syncInProgress, fg, pushes, dels, sync, loadouts,
                 notifications, gh>>

\* ------------------------------------------------------ specification
Init ==
  /\ entries = <<>>
  /\ media = [id \in Ids |-> 0]
  /\ remoteDocs = {}
  /\ remoteBlob = [id \in Ids |-> 0]
  /\ publicFeed = {}
  /\ signedIn \in BOOLEAN
  /\ now = 1
  /\ nextId = [e |-> 1, c |-> 1, l |-> 1]
  /\ syncInProgress = FALSE
  /\ fg = FgIdle
  /\ pushes = {}
  /\ dels = {}
  /\ sync = [s \in SyncIds |-> SyncIdle]
  /\ loadouts = <<>>
  /\ notifications = <<>>
  /\ lastResult = NoResult
  /\ errlog = FALSE
  /\ gh = [just |-> FALSE, replaced |-> {}, s |-> 0, second |-> FALSE,
           uploaded |-> FALSE, due |-> {}, snap |-> <<>>]
  /\ votes = [k \in VoteKeys |-> 0]
  /\ mockVotes = [c \in CommentIds |-> NoCounts]
  /\ mockComments = <<>>
  /\ profile = 0
  /\ remoteProfile = [exists |-> FALSE, name |-> 0]
  /\ profileOps = {}
  /\ thumbJob = ThumbIdle
  /\ publicFeedCache = <<>>
  /\ feedShown = <<>>

\* createEntry called by the page for at most n entries, with form contents
\* from D, isPublic from P, a blob from B and thumbnailing that succeeds (T
\* holds TRUE) or gives null (T holds FALSE)
CreateEntry(n, D, P, B, T) ==
  \/ /\ nextId.e <= n
     /\ \E d \in D, pub \in P, b \in B, th \in T :
          CreateStart(d, pub, b, IF th THEN b ELSE 0)
  \/ CreateFinish

\* updateEntry called by the page
UpdateEntry(D, P, B, T) ==
  \/ \E id \in Ids : UpdateMissing(id)
  \/ \E id \in Ids, d \in D, pub \in P : UpdateMeta(id, d, pub)
  \/ \E id \in Ids, d \in D, pub \in P, b \in B, th \in T :
       UpdateStart(id, d, pub, b, IF th THEN b ELSE 0)
  \/ UpdateFinish

\* the remote requests of the syncEntryToCloud calls in flight resolve or fail
Pushes ==
  \/ \E p \in pushes, ok \in BOOLEAN : PushUpload(p, ok)
  \/ \E p \in pushes : PushSetFail(p)
  \/ \E p \in pushes : PushSet(p)
  \/ \E p \in pushes, ok \in BOOLEAN : PushFeed(p, ok)

\* the remote requests of the syncEntryToCloud calls in flight all resolve
PushesOk ==
  \/ \E p \in pushes : PushUpload(p, TRUE)
  \/ \E p \in pushes : PushSet(p)
  \/ \E p \in pushes : PushFeed(p, TRUE)

\* the remote requests of the deleteEntryFromCloud calls in flight
Deletions ==
  \E id \in Ids, okDoc, okBlob, okFeed \in BOOLEAN :
    RemoteDelete(id, okDoc, okBlob, okFeed)

Background == Pushes \/ Deletions

\* performFullSync invocations s \in S, but for the media downloads
PullPush(S) ==
  \/ FullSyncNoIdentity
  \/ \E s \in S : FullSyncStart(s)
  \/ \E s \in S : SyncListFail(s)
  \/ \E s \in S : SyncList(s)
  \/ \E s \in S : SyncGetMedia(s)

\* the media downloads of the pull phase (entries missing locally)
Downloads(S) ==
  \E s \in S, ok \in BOOLEAN, th \in BOOLEAN : SyncDownload(s, ok, th)

FullSync(S) == PullPush(S) \/ Downloads(S)

\* addComment / editComment / deleteComment called by the page
Comments(n, X) ==
  \/ \E id \in Ids, parentId \in 0..n : nextId.c <= n /\ AddComment(id, 1, parentId)
  \/ \E id \in Ids, c \in 1..MaxComments, text \in X : EditComment(id, c, text)
  \/ \E id \in Ids, c \in 1..MaxComments : DeleteComment(id, c)

\* addMockComment / editMockComment / deleteMockComment called by the page;
\* a reply is made to a comment that is shown
MockComments(X) ==
  \/ \E parentId \in {0} \cup IdsOf(MockBase \o mockComments) : AddMockComment(1, parentId)
  \/ \E c \in 1..BaseCommentId, text \in X : EditMockComment(c, text)
  \/ \E c \in 1..BaseCommentId : DeleteMockComment(c)

\* the profile calls of the page with a name from N, and their remote
\* requests, which resolve (O holds TRUE) or reject (O holds FALSE)
Profiles(N, O) ==
  \/ \E name \in N : SaveProfile(name)
  \/ PushProfileStart
  \/ \E o \in profileOps, ok \in O : PushProfileSet(o, ok)
  \/ PullProfileStart
  \/ \E o \in profileOps, ok \in O : PullProfileGot(o, ok)

\* voteComment / voteMockComment called by the page on the comments C
Votes(C) ==
  \/ \E id \in Ids, c \in C, v \in {1, -1} : VoteComment(id, c, v)
  \/ \E c \in C, v \in {1, -1} : VoteMockComment(c, v)

\* createLoadout / updateLoadout called by the page
Loadouts(X) ==
  \/ CreateLoadout(1, 1)
  \/ \E id \in 1..MaxLoadouts, d \in X : UpdateLoadout(id, d, d)

\* the local-first entry lifecycle: two entries, thumbnailing that may give
\* null, background pushes and deletions that resolve or fail, signing in and
\* out
Next ==
  \/ CreateEntry(MaxEntries, {1}, {FALSE}, {1}, BOOLEAN)
  \/ UpdateEntry({1}, {FALSE}, {1}, {TRUE})
  \/ \E id \in Ids : DeleteEntry(id)
  \/ Background
  \/ SignIn \/ SignOut

Spec == Init /\ [][Next]_vars

\* one entry whose media is replaced, deleted and pulled back, background
\* pushes and one fullSync invocation at a time
NextSync ==
  \/ CreateEntry(1, {1}, {FALSE}, {1}, {TRUE})
  \/ UpdateEntry({1}, {FALSE}, {MaxBlob}, {TRUE})
  \/ \E id \in Ids : DeleteEntry(id)
  \/ Background
  \/ FullSync({1})
  \/ SignIn

SpecSync == Init /\ [][NextSync]_vars

\* fullSync invocations that overlap, over one entry and a moving clock; the
\* entry is never deleted, so nothing is missing locally and no pull downloads
NextOverlap ==
  \/ CreateEntry(1, {1}, {FALSE}, {1}, {TRUE})
  \/ Pushes
  \/ PullPush(SyncIds)
  \/ SignIn \/ Tick

SpecOverlap == Init /\ [][NextOverlap]_vars

\* one entry with its comments, and the loadouts
NextLocal ==
  \/ CreateEntry(1, {1}, {FALSE}, {1}, {TRUE})
  \/ UpdateEntry({2}, {FALSE}, {1}, {TRUE})
  \/ \E id \in Ids : DeleteEntry(id)
  \/ Comments(2, {2})
  \/ Loadouts({2})

SpecLocal == Init /\ [][NextLocal]_vars

\* one entry that is edited while pushes of a fullSync invocation and of the
\* page are in flight; every push request resolves
NextReorder ==
  \/ CreateEntry(1, {1}, {FALSE}, {1}, {TRUE})
  \/ UpdateEntry({2}, {FALSE}, {1}, {TRUE})
  \/ PushesOk
  \/ PullPush({1})

SpecReorder == Init /\ [][NextReorder]_vars

\* votes on the comments of one entry that fullSync pushes and pulls
NextVotes ==
  \/ CreateEntry(1, {1}, {FALSE}, {1}, {TRUE})
  \/ \E id \in Ids : nextId.c <= 2 /\ AddComment(id, 1, 0)
  \/ Votes({1})
  \/ PushesOk
  \/ PullPush({1})

SpecVotes == Init /\ [][NextVotes]_vars

\* an entry that gets a comment of this installation and, by the pull, a
\* comment written on another installation; edits and deletions of both and
\* of the comment a mock entry comes with
NextOwner ==
  \/ CreateEntry(1, {1}, {FALSE}, {1}, {TRUE})
  \/ Comments(1, {2})
  \/ \E id \in Ids : nextId.c <= 2 /\ OtherDeviceComment(id)
  \/ \E c \in {BaseCommentId} : EditMockComment(c, 2) \/ DeleteMockComment(c)
  \/ PushesOk
  \/ PullPush({1})

SpecOwner == Init /\ [][NextOwner]_vars

\* comment threads three deep, on an entry and on a mock entry
NextThreads ==
  \/ CreateEntry(1, {1}, {FALSE}, {1}, {TRUE})
  \/ \E id \in Ids, parentId \in 0..MaxComments :
       /\ parentId = 0 \/ CommentFound(entries, id, parentId)
       /\ AddComment(id, 1, parentId)
  \/ \E id \in Ids, c \in CommentIds : DeleteComment(id, c)
  \/ MockComments({2})

SpecThreads == Init /\ [][NextThreads]_vars

\* the cloud operations called with and without an identity: one entry, the
\* profile, signing in and out; every remote request resolves
NextIdentity ==
  \/ CreateEntry(1, {1}, {FALSE}, {1}, {TRUE})
  \/ DeleteEntry(1)
  \/ PushesOk
  \/ RemoteDelete(1, TRUE, TRUE, TRUE)
  \/ PullPush({1})
  \/ \E op \in CloudOps : CloudCallNoIdentity(op)
  \/ Profiles({1}, {TRUE})
  \/ SignIn \/ SignOut

SpecIdentity == Init /\ [][NextIdentity]_vars

\* one entry that is made public and private again, with pushes whose
\* requests resolve or fail
NextPublic ==
  \/ CreateEntry(1, {1}, BOOLEAN, {1}, {TRUE})
  \/ UpdateEntry({1}, BOOLEAN, {1}, {TRUE})
  \/ Pushes

SpecPublic == Init /\ [][NextPublic]_vars

\* two entries, of which the first may be deleted and pulled back, and a
\* fullSync invocation that may lose the identity on its way
NextPushAll ==
  \/ CreateEntry(MaxEntries, {1}, {FALSE}, {1}, {TRUE})
  \/ DeleteEntry(1)
  \/ PushesOk
  \/ \E okDoc \in BOOLEAN : RemoteDelete(1, okDoc, TRUE, TRUE)
  \/ FullSync({1})
  \/ SignOut

SpecPushAll == Init /\ [][NextPushAll]_vars

\* notifications that arrive while the clock moves, up to the cap and beyond
NextNotify ==
  \/ Notify("follow")
  \/ Tick

SpecNotify == Init /\ [][NextNotify]_vars

\* entries created with a thumbnail in the making, pushed, deleted locally and
\* pulled back with their media; the event loop guarantees that an armed timer
\* fires and that a call resumes once the promise it awaits is settled
NextThumb ==
  \/ Thumbnails
  \/ CreateFinish
  \/ PushesOk
  \/ DeleteEntry(1)
  \/ PullPush({1})

SpecThumb ==
  /\ Init
  /\ [][NextThumb]_vars
  /\ WF_vars(ThumbTimeout)
  /\ WF_vars(CreateResume)
  /\ WF_vars(PullResume)

\* entries created public or not, pushed, their visibility changed and pushed
\* again, and the feed read with the public collection reachable or not
NextFeed ==
  \/ CreateEntry(MaxEntries, {1}, BOOLEAN, {1}, {TRUE})
  \/ \E id \in Ids, pub \in BOOLEAN : UpdateMeta(id, 1, pub)
  \/ PushesOk
  \/ \E ok \in BOOLEAN, fresh \in BOOLEAN : GetFeed(ok, fresh)
  \/ Tick

SpecFeed == Init /\ [][NextFeed]_vars

\* one comment on an entry and one on the mock entry, and votes cast on both
\* alike
NextMirror ==
  \/ CreateEntry(1, {1}, {FALSE}, {1}, {TRUE})
  \/ nextId.c <= 2 /\ ~CommentFound(entries, 1, 1) /\ ~CommentFound(entries, 1, 2)
       /\ AddComment(1, 1, 0)
  \/ nextId.c <= 2 /\ mockComments = <<>> /\ AddMockComment(1, 0)
  \/ \E c \in 1..2, m \in 1..2, v \in {1, -1} : VotePair(1, c, m, v)
  \/ PushesOk
  \/ Tick

SpecMirror == Init /\ [][NextMirror]_vars

\* one entry, pushed, edited with or without identity, and synchronised
NextEdit ==
  \/ CreateEntry(1, {1}, {FALSE}, {1}, {TRUE})
  \/ UpdateMeta(1, 2, FALSE)
  \/ PushesOk
  \/ PullPush({1})
  \/ SignIn \/ SignOut
  \/ Tick

SpecEdit == Init /\ [][NextEdit]_vars

\* one entry, pushed in the background, deleted with a remote deletion that
\* succeeds, and synchronised
NextGhost ==
  \/ CreateEntry(1, {1}, {FALSE}, {1}, {TRUE})
  \/ PushesOk
  \/ DeleteEntry(1)
  \/ RemoteDelete(1, TRUE, TRUE, TRUE)
  \/ FullSync({1})
  \/ Tick

SpecGhost == Init /\ [][NextGhost]_vars

\* one public entry that is made private, with the pushes of createEntry,
\* updateEntry and fullSync overlapping and no remote failure
NextStale ==
  \/ CreateEntry(1, {1}, {TRUE}, {1}, {TRUE})
  \/ UpdateMeta(1, 1, FALSE)
  \/ PushesOk
  \/ FullSyncNoIdentity
  \/ FullSyncStart(1)
  \/ SyncList(1)
  \/ SyncGetMedia(1)
  \/ Tick

SpecStale == Init /\ [][NextStale]_vars

\* a request of a pull that is past its guard is answered
PullStep ==
  \E s \in SyncIds, ok \in BOOLEAN, th \in BOOLEAN :
    SyncList(s) \/ SyncDownload(s, ok, th)

\* no fullSync invocation is running
NoSync == \A s \in SyncIds : sync[s].pc = "idle"

\* two fullSync invocations over entries that were pushed and then deleted
\* locally, and are pulled back, with listings, downloads and local writes
\* that may fail; a request made to the remote store is answered in the end
NextGuard ==
  \/ NoSync /\ CreateEntry(MaxEntries, {1}, {FALSE}, {1}, {TRUE})
  \/ PushesOk
  \/ \E id \in Ids : NoSync /\ pushes = {} /\ DeleteEntry(id)
  \/ PullPush(SyncIds)
  \/ Downloads(SyncIds)
  \/ \E s \in SyncIds : SyncThrow(s)

SpecGuard == Init /\ [][NextGuard]_vars /\ WF_vars(PullStep)

\* entries created at different times, the first edited, the second deleted
\* and pulled back
NextOrder ==
  \/ CreateEntry(MaxEntries, {1}, {FALSE}, {1}, {TRUE})
  \/ UpdateMeta(1, 2, FALSE)
  \/ DeleteEntry(2)
  \/ PushesOk
  \/ FullSync({1})
  \/ Tick

SpecOrder == Init /\ [][NextOrder]_vars

\* ============================================================== claims
\* the record stored under id (the id is in the collection)
EntryOf(es, id) == es[FindIndex(es, id)]

\* C1 (as stated): a fullSync run right after a completed fullSync, with no
\* change in between, leaves the local collection, the remote documents and
\* the remote blobs as the first run left them, and uploads nothing
C1_SyncIdempotent ==
  [][(gh.s # 0 /\ gh.second /\ gh'.just) =>
       /\ entries' = gh.snap[1]
       /\ remoteDocs' = gh.snap[2]
       /\ remoteBlob' = gh.snap[3]
       /\ ~gh.uploaded]_vars

\* C2 (as stated): a performFullSync call made while another invocation is in
\* progress returns at once: it starts neither a pull nor a push
C2_OverlapNoOp ==
  [][\A s \in SyncIds :
       (sync[s].pc = "idle" /\ ~OthersIdle(s)) => sync'[s].pc = "idle"]_vars

\* the step completes the pull phase of invocation s (the listing did not fail)
PullCompletes(s) ==
  /\ \/ sync[s].pc = "list" /\ ~errlog'
     \/ sync[s].pc = "download"
  /\ sync'[s].pc \notin {"list", "download"}

\* the local collection and the cloud entries the rest of the pull works on
PullLocal(s) == IF sync[s].pc = "list" THEN entries ELSE sync[s].loc
PullCloud(s) ==
  IF sync[s].pc = "list" THEN remoteDocs
  ELSE {sync[s].cloud[k] : k \in 1..Len(sync[s].cloud)}
PullLocalIds(s) ==
  IF sync[s].pc = "list" THEN IdsOf(entries) ELSE sync[s].localIds

\* C3: when a pull completes, every record that was local and has a cloud
\* version is the cloud version with the local thumbnail if the cloud
\* syncedAt is strictly greater than the local one (missing = 0), and is the
\* untouched local record otherwise
C3_PullOverwrite ==
  [][\A s \in SyncIds : PullCompletes(s) =>
       \A id \in PullLocalIds(s) :
         HasDoc(PullCloud(s), id) =>
           LET l == EntryOf(PullLocal(s), id)
               r == DocOf(PullCloud(s), id)
           IN /\ id \in IdsOf(entries')
              /\ EntryOf(entries', id) =
                   IF r.syncedAt > l.syncedAt THEN [r EXCEPT !.thumb = l.thumb]
                   ELSE l]_vars

\* a pull has just replaced a local record: it carries the cloud syncedAt and
\* still its local thumbnail, which is not the blob the cloud holds
C3_Witness ==
  /\ sync[1].pc = "getMedia"
  /\ \E k \in 1..Len(entries) :
       /\ entries[k].syncedAt > 0
       /\ entries[k].thumb # 0
       /\ entries[k].thumb # remoteBlob[entries[k].id]

\* C4 (as stated): updateEntry with a new blob leaves the entry without a
\* cloud URL, and when the next fullSync has completed undisturbed the remote
\* blob of every entry whose media was replaced is the new local blob
C4_ReuploadAfterReplace ==
  [][/\ (lastResult'.op = "update" /\ lastResult'.blob # 0) =>
          EntryOf(entries', lastResult'.id).cloudUrl = 0
     /\ (gh.s # 0 /\ gh'.just) =>
          \A id \in gh.due \cap IdsOf(entries') : remoteBlob'[id] = media'[id]]_vars

\* C5: when createEntry returns, it returns the entry, the id is in the local
\* collection and getMedia(id) gives the blob that was passed in
C5_CreateStored ==
  lastResult.op = "create" =>
    /\ lastResult.outcome = "entry"
    /\ lastResult.id \in IdsOf(entries)
    /\ lastResult.blob # 0
    /\ media[lastResult.id] = lastResult.blob

\* createEntry has returned an entry whose thumbnail came out null
C5_Witness ==
  /\ lastResult.op = "create"
  /\ entries[1].id = lastResult.id
  /\ entries[1].thumb = 0

\* C6 (as stated): while no createEntry / updateEntry call is suspended, every
\* entry of the local collection has a blob stored under its id
C6_OneBlobPerEntry ==
  fg.pc = "idle" => \A k \in 1..Len(entries) : media[entries[k].id] # 0

\* the id was handed out and is not the one a suspended createEntry holds
Gone(id) ==
  /\ id < nextId.e
  /\ id \notin IdsOf(entries)
  /\ ~(fg.pc = "create" /\ fg.id = id)

\* C7: when deleteEntry returns, the id is in the local collection no more
\* and has no blob; a remote deletion that ends, either way, leaves the
\* collection and the blobs alone; no step brings an entry back
C7_DeleteComplete ==
  [][/\ lastResult'.op = "delete" =>
          /\ lastResult'.id \notin IdsOf(entries')
          /\ media'[lastResult'.id] = 0
     /\ (dels' # dels /\ dels' \subseteq dels) =>
          /\ entries' = entries
          /\ media' = media
     /\ \A id \in Ids : Gone(id) => id \notin IdsOf(entries')]_vars

\* a remote request has just failed while an entry removed locally is still
\* a remote document
C7_Witness ==
  /\ errlog
  /\ dels = {}
  /\ \E id \in Ids :
       /\ Gone(id)
       /\ media[id] = 0
       /\ HasDoc(remoteDocs, id)

\* C8: nothing is thrown to the page but updateEntry's not-found error; a
\* createEntry / updateEntry call that ends returns the entry, with or
\* without identity; a step in which a remote request fails changes neither
\* the collection, nor the blobs, nor the call in progress
C8_LocalFirst ==
  [][/\ lastResult'.outcome = "thrown" =>
          /\ lastResult'.op = "update"
          /\ ~lastResult'.found
     /\ (fg.pc # "idle" /\ fg'.pc = "idle") =>
          /\ lastResult'.outcome = "entry"
          /\ fg.id \in IdsOf(entries')
          /\ media'[fg.id] = fg.blob
     /\ errlog' => (entries' = entries /\ media' = media /\ fg' = fg)]_vars

\* the push of the only remote attempt has just failed for good: the entry
\* is in the collection with its blob, and nothing reached the remote store
C8_Witness ==
  /\ errlog
  /\ pushes = {}
  /\ remoteDocs = {}
  /\ entries # <<>>
  /\ \A k \in 1..Len(entries) : media[entries[k].id] # 0

\* C9: updateEntry on an id that is not in the collection throws, and the
\* collection, the blobs and the pushes in flight are what they were
C9_UpdateAbsent ==
  [][(lastResult'.op = "update" /\ ~lastResult'.found) =>
       /\ lastResult'.outcome = "thrown"
       /\ entries' = entries
       /\ media' = media
       /\ pushes' = pushes]_vars

\* updateEntry has thrown for a missing id while other entries exist and an
\* identity is present
C9_Witness ==
  /\ lastResult.op = "update"
  /\ lastResult.outcome = "thrown"
  /\ entries # <<>>
  /\ signedIn

\* the calls C10 is about
NotFoundOps == {"update", "addComment", "editComment", "deleteComment", "updateLoadout"}

\* C10 (amended): a missing entry, comment or loadout is reported as null by
\* addComment, editComment and updateLoadout and as false by deleteComment;
\* updateEntry throws
C10_NotFoundReport ==
  (lastResult.op \in NotFoundOps /\ ~lastResult.found) =>
    lastResult.outcome =
      CASE lastResult.op = "update" -> "thrown"
        [] lastResult.op = "deleteComment" -> "false"
        [] OTHER -> "null"

\* C10 (as stated): a missing entry, comment or loadout is reported as a
\* null / false sentinel by all five calls and is never thrown
C10_SentinelNeverThrown ==
  (lastResult.op \in NotFoundOps /\ ~lastResult.found) =>
    lastResult.outcome \in {"null", "false"}

\* editComment has returned null for a comment that the existing entry does
\* not have
C10_Witness ==
  /\ lastResult.op = "editComment"
  /\ ~lastResult.found
  /\ lastResult.outcome = "null"
  /\ lastResult.id \in IdsOf(entries)

\* the ids of the cloud entries the pull of invocation s listed
PullCloudIds(s) == {d.id : d \in PullCloud(s)}

\* C11: an invocation in its push phase never goes back to a pull step; it has
\* pushes in flight only in its push phase; and when its pull phase ends the
\* guard flag is clear, every listed cloud entry is in the saved collection
\* and the push phase works on the collection just saved
C11_PullBeforePush ==
  [][\A s \in SyncIds :
       /\ sync[s].pc \in {"getMedia", "push"} =>
            sync'[s].pc \in {"getMedia", "push", "idle"}
       /\ (\E p \in pushes' : p.owner = s) => sync'[s].pc = "push"
       /\ PullCompletes(s) =>
            /\ ~syncInProgress'
            /\ PullCloudIds(s) \subseteq IdsOf(entries')
            /\ sync'[s].pc = "getMedia" => sync'[s].ents = entries']_vars

\* an invocation is pushing after its pull: the entry carries the cloud
\* syncedAt and URL and the local blob is the remote one
C11_Witness ==
  /\ sync[1].pc = "push"
  /\ ~syncInProgress
  /\ \E k \in 1..Len(entries) :
       /\ entries[k].syncedAt > 0
       /\ entries[k].cloudUrl # 0
       /\ media[entries[k].id] = remoteBlob[entries[k].id]
       /\ media[entries[k].id] # 0

\* no call is suspended and no remote request is in flight
Quiet ==
  /\ pushes = {}
  /\ dels = {}
  /\ fg.pc = "idle"
  /\ \A s \in SyncIds : sync[s].pc = "idle"

\* C12 (as stated): with an identity, once every operation in flight has
\* completed, the remote document of an entry holds the entry's local contents
C12_ReorderHarmless ==
  (Quiet /\ signedIn) =>
    \A k \in 1..Len(entries) :
      HasDoc(remoteDocs, entries[k].id) =>
        LET r == DocOf(remoteDocs, entries[k].id)
        IN /\ r.data = entries[k].data
           /\ r.isPublic = entries[k].isPublic
           /\ r.comments = entries[k].comments

\* the counters of comment c of entry id and the vote stored for it
Tally(es, vs, id, c) ==
  LET cs == EntryOf(es, id).comments
      cm == CHOOSE x \in {cs[k] : k \in 1..Len(cs)} : x.id = c
  IN <<cm.upvotes, cm.downvotes, vs[<<id, c>>]>>

\* the counters and stored vote a comment of one voter goes through when
\* nothing but votes touches it
FreshRun == {<<0, 0, 0>>, <<1, 0, 1>>, <<0, 1, -1>>}

\* a counter after a decrement
OneLess(n) == IF n = 0 THEN 0 ELSE n - 1

\* the counter of vote v in a tally, and the score
CounterOf(t, v) == IF v = 1 THEN t[1] ELSE t[2]
Score(t) == t[1] - t[2]

\* C13: voteComment(entry, comment, v) on an existing comment clears the
\* stored vote and decrements v's counter when the stored vote is v; else it
\* stores v, increments v's counter and decrements the counter of a previous
\* opposite vote. On a comment touched by votes only, score = stored vote after
\* every vote: v after v gives 0/0 and no vote, v after -v moves the score by 2
C13_VoteToggle ==
  [][\A id \in Ids, c \in CommentIds, v \in {1, -1} :
       (VoteComment(id, c, v) /\ CommentFound(entries, id, c)) =>
         LET a == Tally(entries, votes, id, c)
             b == Tally(entries', votes', id, c)
         IN /\ a[3] = v =>
                 /\ b[3] = 0
                 /\ CounterOf(b, v) = OneLess(CounterOf(a, v))
                 /\ CounterOf(b, -v) = CounterOf(a, -v)
            /\ a[3] # v =>
                 /\ b[3] = v
                 /\ CounterOf(b, v) = CounterOf(a, v) + 1
                 /\ CounterOf(b, -v) = IF a[3] = -v THEN OneLess(CounterOf(a, -v))
                                       ELSE CounterOf(a, -v)
            /\ a \in FreshRun =>
                 /\ b \in FreshRun
                 /\ Score(b) = b[3]
                 /\ a[3] = v => b = <<0, 0, 0>>
                 /\ a[3] = -v => Score(b) - Score(a) = 2 * v]_vars

\* a vote has just been cast a second time on a comment nothing else touched:
\* no score, no stored vote
C13_Witness ==
  /\ lastResult.op = "vote" /\ lastResult.found
  /\ remoteDocs = {}
  /\ CommentFound(entries, 1, 1)
  /\ Tally(entries, votes, 1, 1) = <<0, 0, 0>>

\* C14: no comment has a negative counter, in the local collection, in the
\* remote documents or among the mock counters
C14_CountersNotNegative ==
  /\ \A k \in 1..Len(entries) : \A n \in 1..Len(entries[k].comments) :
       entries[k].comments[n].upvotes >= 0 /\ entries[k].comments[n].downvotes >= 0
  /\ \A d \in remoteDocs : \A n \in 1..Len(d.comments) :
       d.comments[n].upvotes >= 0 /\ d.comments[n].downvotes >= 0
  /\ \A c \in CommentIds : mockVotes[c].upvotes >= 0 /\ mockVotes[c].downvotes >= 0

\* a vote has just been cast on a comment whose stored vote and counters
\* disagreed: the pull had replaced the comment by its remote copy (one
\* downvote) after the voter had flipped to an upvote, and the upvote was
\* cast again with the counter at zero
C14_Witness ==
  /\ lastResult.op = "vote" /\ lastResult.found
  /\ CommentFound(entries, 1, 1)
  /\ Tally(entries, votes, 1, 1) = <<0, 1, 0>>

\* every stored document and every remote request in flight
Stores ==
  <<entries, media, remoteDocs, remoteBlob, publicFeed, loadouts, notifications,
    votes, mockVotes, mockComments, profile, remoteProfile, profileOps, pushes, dels>>

\* the comments with id c in a list that were written under another profile id
NotMine(cs, c) == {cs[k] : k \in {n \in 1..Len(cs) : cs[n].id = c /\ cs[n].userId # Me}}

Kept(cs, c) == {cs[k] : k \in {n \in 1..Len(cs) : cs[n].id # c /\ cs[n].parentId # c}}

\* list b holds exactly the members of list a that deleteComment(c) keeps,
\* unchanged and in the order of a
KeepsOthers(a, b, c) ==
  /\ {b[k] : k \in 1..Len(b)} = Kept(a, c)
  /\ Len(b) = Cardinality(Kept(a, c))
  /\ \A i, j \in 1..Len(b) :
       i < j => \E m, n \in 1..Len(a) : m < n /\ a[m] = b[i] /\ a[n] = b[j]

\* the comment with id c of a list was written under the current profile id
Mine(cs, c) == \E k \in 1..Len(cs) : cs[k].id = c /\ cs[k].userId = Me

\* C16: deleteComment (and deleteMockComment) by the comment's owner returns
\* true and removes that comment and the comments whose parentId is its id;
\* every other comment, replies to the removed replies included, stays as it
\* was, and so does every other entry
C16_DirectRepliesOnly ==
  [][/\ \A id \in Ids, c \in CommentIds :
          (id \in IdsOf(entries) /\ Mine(EntryOf(entries, id).comments, c)
             /\ DeleteComment(id, c)) =>
            /\ lastResult'.outcome = "true"
            /\ Len(entries') = Len(entries)
            /\ \A k \in 1..Len(entries) :
                 IF entries[k].id = id
                 THEN /\ KeepsOthers(entries[k].comments, entries'[k].comments, c)
                      /\ [entries'[k] EXCEPT !.comments = <<>>]
                           = [entries[k] EXCEPT !.comments = <<>>]
                 ELSE entries'[k] = entries[k]
     /\ \A c \in CommentIds :
          (Mine(mockComments, c) /\ DeleteMockComment(c)) =>
            /\ lastResult'.outcome = "true"
            /\ KeepsOthers(mockComments, mockComments', c)]_vars

\* the page replies only to comments that are shown, so a stored comment
\* whose parent is gone is the reply to a reply that went with its own parent:
\* deleteComment has just left one behind
C16_Witness ==
  /\ lastResult.op = "deleteComment"
  /\ lastResult.outcome = "true"
  /\ \E k \in 1..Len(entries) : \E n \in 1..Len(entries[k].comments) :
       LET x == entries[k].comments[n]
       IN x.parentId # 0 /\ x.parentId \notin IdsOf(entries[k].comments)

\* the calls the step just taken may have been a return of
IdentityOps == CloudOps \cup {"fullSync", "pushProfile", "pullProfile"}

\* C17: without an identity a cloud operation (pushEntry, deleteRemote,
\* pullAll, pushAllLocal, fullSync, pushProfile, pullProfile) that is called
\* changes no stored document, starts no remote request and leaves the
\* invocations and the sync-in-progress flag as they are; pushEntry returns
\* false. So no step taken without an identity starts a remote request, the
\* background pushes and deletions of create / update / delete included
C17_NoIdentityNoOp ==
  [][~signedIn =>
       /\ lastResult'.op \in IdentityOps =>
            /\ Stores' = Stores
            /\ syncInProgress' = syncInProgress
            /\ sync' = sync
            /\ fg' = fg
            /\ lastResult'.outcome = IF lastResult'.op = "pushEntry"
                                     THEN "false" ELSE "skipped"
       /\ Cardinality(pushes') <= Cardinality(pushes)
       /\ dels' \subseteq dels
       /\ profileOps' \subseteq profileOps
       /\ \A s \in SyncIds : sync[s].pc = "idle" => sync'[s].pc = "idle"
       /\ syncInProgress' => syncInProgress]_vars

\* syncProfileToCloud has just returned at the identity check, with a local
\* profile the remote document does not hold and an entry that was never
\* pushed
C17_Witness ==
  /\ ~signedIn
  /\ lastResult.op = "pushProfile" /\ lastResult.outcome = "skipped"
  /\ profile = 1 /\ ~remoteProfile.exists
  /\ Len(entries) = 1 /\ remoteDocs = {} /\ pushes = {}

\* C18 (as stated): when a pushEntry returns true, the public collection holds
\* a mirror of the pushed entry exactly if the pushed entry is public
C18_MirrorIffPublic ==
  [][\A p \in pushes :
       (\/ PushFeed(p, TRUE)
        \/ PushFeed(p, FALSE)
        \/ PushSet(p) /\ FeedSkipped(p)) =>
         (HasDoc(publicFeed', p.entry.id) <=> p.entry.isPublic)]_vars

\* C19: when a pull completes without error, the local collection holds every
\* document id the pull listed exactly once
C19_PullInsertsOnce ==
  [][\A s \in SyncIds : PullCompletes(s) =>
       \A d \in PullCloud(s) :
         Cardinality({k \in 1..Len(entries') : entries'[k].id = d.id}) = 1]_vars

\* the push phase follows a pull that inserted a document whose id was absent
\* locally (the entry had been deleted, its blob with it) and that brought no
\* blob back
C19_Witness ==
  /\ sync[1].pc = "getMedia"
  /\ ~syncInProgress
  /\ \E k \in 1..Len(entries) :
       /\ entries[k].userId = Uid
       /\ HasDoc(remoteDocs, entries[k].id)
       /\ media[entries[k].id] = 0

\* invocation s goes from its entry j to the next one, or ends after the last
Advances(s) ==
  IF sync[s].j < Len(sync[s].ents)
  THEN /\ sync'[s].pc = "getMedia"
       /\ sync'[s].j = sync[s].j + 1
       /\ sync'[s].ents = sync[s].ents
  ELSE sync'[s].pc = "idle"

\* C20: pushAllLocal starts at the first entry of the local collection and
\* goes through it entry by entry; for each it calls pushEntry with that entry
\* and with the local blob exactly when there is one and the entry records no
\* cloud URL (without an identity the call returns at once), and it goes on
\* when the call has returned
C20_PushAllOncePerEntry ==
  [][\A s \in SyncIds :
       /\ (sync[s].pc \notin {"getMedia", "push"} /\ sync'[s].pc = "getMedia") =>
            sync'[s].ents = entries' /\ sync'[s].j = 1
       /\ SyncGetMedia(s) =>
            LET e      == sync[s].ents[sync[s].j]
                b      == media[e.id]
                handed == IF b # 0 /\ e.cloudUrl = 0 THEN b ELSE 0
            IN IF signedIn
               THEN /\ \E p \in pushes' :
                         /\ p \notin pushes /\ pushes' = pushes \cup {p}
                         /\ p.owner = s /\ p.entry = e /\ p.blob = handed
                    /\ sync'[s] = [sync[s] EXCEPT !.pc = "push"]
               ELSE pushes' = pushes /\ Advances(s)
       /\ (sync[s].pc = "push" /\ sync'[s].pc # "push") => Advances(s)]_vars

\* pushAllLocal is at its second entry and has called pushEntry without a
\* blob for an entry that has one and records a cloud URL
C20_Witness ==
  /\ sync[1].pc = "push" /\ sync[1].j = 2
  /\ \E p \in pushes :
       /\ p.owner = 1
       /\ p.entry = sync[1].ents[2]
       /\ p.blob = 0
       /\ media[p.entry.id] # 0
       /\ p.entry.cloudUrl # 0

\* the list is newest first
NewestFirst(ns) ==
  \A i, j \in 1..Len(ns) : i < j => ns[i].createdAt >= ns[j].createdAt

\* C21: every createNotification leaves at most 50 items, newest first, with
\* the new item in front of the items that were there; when that makes 51, the
\* one dropped is the last of the old list, and no kept item is older than it
C21_NotificationCap ==
  [][Notify("follow") =>
       LET old == GetNotifications(notifications, now)
           new == notifications'
       IN /\ Len(new) <= NOTIFICATION_CAP
          /\ NewestFirst(new)
          /\ new[1].createdAt = now /\ new[1].read = FALSE
          /\ IF Len(old) < NOTIFICATION_CAP
             THEN SubSeq(new, 2, Len(new)) = old
             ELSE /\ SubSeq(new, 2, Len(new)) = SubSeq(old, 1, Len(old) - 1)
                  /\ \A k \in 1..Len(new) :
                       new[k].createdAt >= old[Len(old)].createdAt]_vars

\* the list is full and the demo notifications, the oldest, have all been
\* dropped while notifications of the first clock value are kept
C21_Witness ==
  /\ Len(notifications) = NOTIFICATION_CAP
  /\ notifications[1].createdAt = MaxClock
  /\ notifications[NOTIFICATION_CAP].createdAt = 1


\* a createThumbnail promise a call is waiting for
Pending == thumbJob.pc # "idle" /\ ~thumbJob.settled

\* C22: a createThumbnail promise that is not yet settled has its timer armed,
\* a settled one holds null or the image and is never rejected, every promise
\* is eventually settled, and the createEntry or syncFromCloud call waiting
\* for it eventually resumes
C22_ThumbnailSettles ==
  /\ [](Pending => thumbJob.timer)
  /\ [](thumbJob.settled => thumbJob.result \in {0, thumbJob.blob})
  /\ [](thumbJob.pc \in {"idle", "loading", "seeking", "over"})
  /\ (Pending ~> thumbJob.settled)
  /\ (thumbJob.pc # "idle" ~> thumbJob.pc = "idle")

\* C22 witness: the video of a pulled entry was loaded but the seek never
\* ended, and the timer resolved the promise with null
C22_Witness ==
  /\ thumbJob.caller = "pull"
  /\ thumbJob.type = "video"
  /\ thumbJob.pc = "seeking"
  /\ thumbJob.settled
  /\ thumbJob.result = 0
  /\ ~thumbJob.timer

\* C23: a getCommunityFeed() call without a filter that gets no public entries
\* (the fetch fails or returns none, nothing usable is cached) returns every
\* local entry that is public, no local entry that is not, and a list in
\* non-increasing createdAt order
C23_FallbackFeed ==
  [][\A ok, fresh \in BOOLEAN :
       (GetFeed(ok, fresh) /\ publicFeedCache' = <<>>)
         => /\ \A k \in 1..Len(entries) :
                 entries[k].isPublic <=> InFeed(feedShown', entries[k].id)
            /\ NewestFirst(feedShown')
            /\ InFeed(feedShown', MockId)]_vars

\* C23 witness: the feed was read with no public entries at hand while a
\* public and a newer private entry were stored: the public entry is listed
\* before the demo entry and the private one is not listed
C23_Witness ==
  /\ lastResult.op = "getFeed"
  /\ publicFeedCache = <<>>
  /\ Len(entries) = 2
  /\ ~entries[1].isPublic
  /\ entries[2].isPublic
  /\ entries[1].createdAt > entries[2].createdAt
  /\ Len(feedShown) = 2
  /\ feedShown[1].id = entries[2].id
  /\ feedShown[2].id = MockId

\* what getMockComments and getCommentVote report for comment m of the mock
\* entry: the counters and the stored vote
MockTally(ms, mv, vs, m) ==
  LET cm == ms[FindIndex(ms, m)]
      g  == GetMockCommentCounts(cm, mv[m])
  IN <<g.upvotes, g.downvotes, vs[<<MockId, m>>]>>

\* C24: a comment of an entry and a user-added comment of the mock entry that
\* have received the same votes since 0/0 show the same counters and hold the
\* same stored vote, and voting on the one leaves the comments and counters
\* of the other store alone
C24_MockVotesAlike ==
  [][\A c \in 1..2, m \in 1..2, v \in {1, -1} :
       VotePair(1, c, m, v) =>
         /\ Tally(entries, votes, 1, c) = MockTally(mockComments, mockVotes, votes, m)
         /\ Tally(entries', votes', 1, c) = MockTally(mockComments', mockVotes', votes', m)
         /\ Tally(entries', votes', 1, c) \in FreshRun]_vars

\* C24 witness: after an upvote changed to a downvote on both comments, both
\* show 0/1 and hold the vote -1
C24_Witness ==
  /\ lastResult.op = "votePair"
  /\ \E c \in 1..2, m \in 1..2 :
       /\ CommentFound(entries, 1, c)
       /\ FindIndex(mockComments, m) # 0
       /\ Tally(entries, votes, 1, c) = <<0, 1, -1>>
       /\ MockTally(mockComments, mockVotes, votes, m) = <<0, 1, -1>>

\* the step in which the pull of invocation s, suspended in a download, saves
\* its merged collection
PullPersists(s) == sync[s].pc = "download" /\ sync'[s].pc # "download"

\* C25 (as stated): what was done to the collection while a pull was
\* suspended in a download is still there when the pull has saved its merged
\* result: an entry created meanwhile is in the collection, an entry deleted
\* meanwhile is not, and an entry without cloud version is the record it was
\* just before the save
C25_NoLostMutation ==
  [][\A s \in SyncIds : PullPersists(s) =>
       /\ \A id \in IdsOf(entries) \ sync[s].localIds : id \in IdsOf(entries')
       /\ \A id \in sync[s].localIds \ IdsOf(entries) : id \notin IdsOf(entries')
       /\ \A id \in (IdsOf(entries) \cap sync[s].localIds) \ PullCloudIds(s) :
            /\ id \in IdsOf(entries')
            /\ EntryOf(entries', id) = EntryOf(entries, id)]_vars

\* C26 (as stated): an entry whose local fields differ from those of its
\* remote document while no push is in flight, which on a single device means
\* a local edit whose push was not made or failed, keeps its local fields
\* when the pull of a fullSync that ran alone since it was called completes,
\* and
\* when the fullSync has returned undisturbed the remote document carries
\* the fields of the local record
C26_EditSurvivesSync ==
  [][/\ \A s \in SyncIds : (PullCompletes(s) /\ gh.s = s) =>
          \A id \in PullLocalIds(s) :
            (HasDoc(PullCloud(s), id)
               /\ pushes = {}
               /\ EntryOf(PullLocal(s), id).data # DocOf(PullCloud(s), id).data) =>
              /\ id \in IdsOf(entries')
              /\ EntryOf(entries', id).data = EntryOf(PullLocal(s), id).data
     /\ (gh.s # 0 /\ gh'.just) =>
          \A id \in IdsOf(entries') :
            HasDoc(remoteDocs', id) =>
              DocOf(remoteDocs', id).data = EntryOf(entries', id).data]_vars

\* C27 (as stated): where every deletion is made with an identity and every
\* remote deletion succeeds, an entry that was deleted locally and whose
\* remote deletion has ended is put back into the collection by no step of a
\* fullSync called afterwards that runs alone, also when a push of it was in
\* flight at the time of the deletion
C27_DeletedStaysDeleted ==
  [][\A id \in Ids :
       (signedIn /\ Gone(id) /\ id \notin dels /\ gh.s # 0) =>
         id \notin IdsOf(entries')]_vars

\* C28 (as stated): with an identity and no remote failure, once no push is
\* in flight and no fullSync is running, an entry that is not public locally
\* has no mirror in the public collection
C28_PrivateHasNoMirror ==
  (signedIn /\ pushes = {} /\ fg.pc = "idle" /\ \A s \in SyncIds : sync[s].pc = "idle") =>
    \A k \in 1..Len(entries) :
      ~entries[k].isPublic => ~HasDoc(publicFeed, entries[k].id)

\* the pull of invocation s is past its guard and has not ended
PastGuard(s) == sync[s].pc \in {"list", "download"}

\* C29: at most one pull is past its guard, the guard flag is set exactly
\* while a pull is past its guard, so it is clear as soon as that pull has
\* ended, by a save, a failed listing or an exception, and a set flag is
\* always cleared in the end
C29_GuardReleased ==
  /\ [](Cardinality({s \in SyncIds : PastGuard(s)}) <= 1)
  /\ [](syncInProgress <=> \E s \in SyncIds : PastGuard(s))
  /\ (syncInProgress ~> ~syncInProgress)

\* C29 witness: a pull has just ended by an exception without saving: the
\* flag is clear, no pull is past its guard, the collection is empty, and an
\* entry the remote store holds has its media stored locally
C29_Witness ==
  /\ errlog
  /\ ~syncInProgress
  /\ \A s \in SyncIds : ~PastGuard(s)
  /\ entries = <<>>
  /\ \E id \in Ids : media[id] # 0 /\ HasDoc(remoteDocs, id)

\* C30: the stored collection is in non-increasing createdAt order
C30_NewestFirst == NewestFirst(entries)

\* C30 witness: the newer of two entries was deleted locally and a pull has
\* put it back before the older one
C30_Witness ==
  /\ Len(entries) = 2
  /\ entries[1].createdAt > entries[2].createdAt
  /\ entries[1].syncedAt > 0
  /\ entries[1].userId = Uid
  /\ entries[1].id \in dels
====
